---- MODULE Spec2Model ----
(***************************************************************************)
(* Model of the global-index frame sampling, the parallel extraction      *)
(* scheduler (src/src/multiprocess_extraction.py), the sampling predicate *)
(* (src/src/frame_extraction.py) and the frame pairing engine             *)
(* (src/src/frame_stitching.py).                                          *)
(*                                                                         *)
(* Three specifications share the variables:                              *)
(*   SpecSample  - FrameExtractor.should_extract_frame applied to a scan  *)
(*                 of frame numbers;                                      *)
(*   Spec        - MultiprocessExtractor.extract_all_frames with its      *)
(*                 worker processes (extract_segment_frames);             *)
(*   SpecPair    - FrameStitcher.find_frame_pairs on arbitrary inputs.    *)
(***************************************************************************)
EXTENDS Integers, Sequences, FiniteSets, TLC

\* ------------------------------------------------------------------ bounds
MaxInterval == 2
MaxSampleInterval == 4
MaxTasks == 2
MaxSegs == 3
MaxSegNum == 3
MaxFrames == 2
MaxDecoded == 2
MaxWorkers == 2
MaxSlow == 1
MaxTotal == 8
MaxProbe == 3
MaxLen == 3
MaxG == 4
MaxCalls == 2

VARIABLES
    sampling_interval,  \* FrameExtractor.sampling_interval / task.sampling_interval
    \* --- sampling scan (SpecSample)
    total_frames,       \* F: number of frame numbers scanned
    scan_g,             \* last global frame number handed to should_extract_frame
    accepted,           \* the accepted frame numbers, in scan order
    probe,              \* the last call with a frame number < 1: << [g, result] >>
    \* --- extract_all_frames (Spec)
    max_workers,        \* MultiprocessExtractor.max_workers
    cam0_segments,      \* argument cam0_segments, as passed in
    cam1_segments,      \* argument cam1_segments, as passed in
    tasks,              \* the task list built at lines 139-165
    status,             \* per task: state of its future / worker process
    outcome,            \* per task: what the worker met when it ran the segment
    future_result,      \* per task: the list the worker returned
    slow,               \* tasks whose run time exceeded the 300 s per-task timeout
    cam0_results,       \* local list cam0_results
    cam1_results,       \* local list cam1_results
    completion,         \* the task ids in the order as_completed yielded them
    pc,                 \* position of extract_all_frames
    returned,           \* the tuple handed to the caller
    \* --- find_frame_pairs (SpecPair)
    cam0_frames,        \* argument cam0_frames
    cam1_frames,        \* argument cam1_frames
    pairs,              \* the returned list of pairs
    cam0_only,          \* local set cam0_only
    cam1_only,          \* local set cam1_only
    prev_pairs,         \* result of the previous call on the same inputs
    calls               \* number of find_frame_pairs calls made

VARIABLES
    \* --- stitch_frames (SpecStitch)
    output_dir_ok,      \* whether validate_output_directory accepts output_dir
    stitch_fails,       \* the frame numbers whose stitch_pair call raises
    stitch_pc,          \* position of stitch_frames
    attempted,          \* the frame numbers handed to stitch_pair, in call order
    stitched_frames     \* the returned list of StitchedFrame

stitchVars == << output_dir_ok, stitch_fails, stitch_pc, attempted, stitched_frames >>

VARIABLES
    \* --- analyze_sync_quality (SpecSync)
    cam0_timestamps,    \* the pts_us values of camera 0's combined series
    cam1_timestamps,    \* the pts_us values of camera 1's combined series
    sample_points,      \* TimestampAnalyzer.sample_points
    sync_pc,            \* position of analyze_sync_quality
    sync_analysis,      \* << the returned SyncAnalysis >>, << >> before the return
    \* --- _calculate_rating (SpecRating)
    rating_args,        \* the arguments of the call
    rating_out          \* << the rating returned >>, << >> before the return

syncVars == << cam0_timestamps, cam1_timestamps, sample_points, sync_pc, sync_analysis >>
ratingVars == << rating_args, rating_out >>

VARIABLES
    \* --- main (SpecMain)
    config_ok,              \* whether load_config accepts the configuration file
    input_dir_ok,           \* whether validate_input_directory accepts input_dir
    frame_count_threshold,  \* config.frame_count_threshold, in percent
    user_continues,         \* the operator's answer to prompt_user_continue
    runs                    \* the runs of main on these inputs, one record each

mainVars == << config_ok, input_dir_ok, frame_count_threshold, user_continues, runs >>

VARIABLES
    \* --- _calculate_rating, rating and recommendations (SpecRecommend, SpecMonotone)
    rating_calls,       \* the arguments of each call of _calculate_rating
    rating_results      \* per call: << the returned tuple >>, << >> before the return

callVars == << rating_calls, rating_results >>

VARIABLES
    \* --- ConfigManager.load_config (SpecConfig)
    config_dict,        \* the dictionary read from the YAML file, defaults merged in
    config_result       \* << the outcome of load_config >>, << >> before it ends

configVars == << config_dict, config_result >>

VARIABLES
    \* --- analyze_all_segments (SpecLoad)
    load_futures,       \* the list futures: what each load task returns
    load_pending,       \* the futures as_completed has not yielded yet
    ts_results,         \* the dictionaries cam0_results and cam1_results
    load_pc,            \* position of analyze_all_segments
    combined            \* << all_cam0_timestamps, all_cam1_timestamps >> after the merge

loadVars == << load_futures, load_pending, ts_results, load_pc, combined >>

VARIABLES
    \* --- FrameExtractor.extract_frames (SpecSequential, SpecCameras)
    seq_calls,          \* the calls: camera, segment list, output directory, outcomes
    seq_extracted,      \* per call: << what extract_frames ended with >>
    par_extracted       \* per call: << extract_all_frames' list for the same input >>

seqVars == << seq_calls, seq_extracted, par_extracted >>

VARIABLES
    \* --- the streaming workers (SpecStream, FairSpecStream)
    stream_segments,        \* argument segments of each extraction worker
    stream_outcomes,        \* per camera and segment: what the worker meets
    stream_pos,             \* per camera: number of frames the worker has saved
    extracted_frames_dict,  \* the shared dictionary, per camera: number -> metadata
    stitch_queue,           \* the pairs on the queue, oldest first
    queued,                 \* every pair ever put on the queue, in order
    stop_event,             \* stop_event.is_set()
    stop_early,             \* stop_event was set while a producer was still running
    stream_fails,           \* the frame numbers whose stitch_single_pair raises
    taken,                  \* the pairs the stitcher got and tried, in order
    stitched_count,         \* local stitched_count of the stitcher
    stitcher_pc             \* position of streaming_stitcher_worker

streamVars == << stream_segments, stream_outcomes, stream_pos, extracted_frames_dict,
                 stitch_queue, queued, stop_event, stop_early, stream_fails, taken,
                 stitched_count, stitcher_pc >>

lastVars == << callVars, configVars, loadVars, seqVars, streamVars >>

laterVars == << stitchVars, syncVars, ratingVars, mainVars, lastVars >>

vars == << sampling_interval, total_frames, scan_g, accepted, probe,
           max_workers, cam0_segments, cam1_segments, tasks, status, outcome,
           future_result, slow, cam0_results, cam1_results, completion, pc,
           returned, cam0_frames, cam1_frames, pairs, cam0_only, cam1_only, prev_pairs,
           calls, laterVars >>

sampleVars == << total_frames, scan_g, accepted, probe >>
extractVars == << max_workers, cam0_segments, cam1_segments, tasks, status,
                  outcome, future_result, slow, cam0_results, cam1_results,
                  completion, pc, returned >>
pairVars == << cam0_frames, cam1_frames, pairs, cam0_only, cam1_only,
               prev_pairs, calls >>

earlierVars == << sampling_interval, sampleVars, extractVars, pairVars, stitchVars,
                  syncVars, ratingVars, mainVars >>

\* What the actions of one of the last components leave alone.
besideCalls == << earlierVars, configVars, loadVars, seqVars, streamVars >>
besideConfig == << earlierVars, callVars, loadVars, seqVars, streamVars >>
besideLoad == << earlierVars, callVars, configVars, seqVars, streamVars >>
besideSeq == << earlierVars, callVars, configVars, loadVars, streamVars >>
besideStream == << earlierVars, callVars, configVars, loadVars, seqVars >>

\* ---------------------------------------------------------------- helpers
Range(s) == { s[i] : i \in DOMAIN s }

Count(s, x) == Cardinality({ i \in DOMAIN s : s[i] = x })

RECURSIVE SeqSum(_)
SeqSum(s) == IF s = << >> THEN 0 ELSE Head(s) + SeqSum(Tail(s))

SeqsUpTo(S, n) == UNION { [1..k -> S] : k \in 0..n }

\* --------------------------------------------- states of the idle components
IdleSample ==
    /\ total_frames = 0
    /\ scan_g = 0
    /\ accepted = << >>
    /\ probe = << >>

IdleExtract ==
    /\ max_workers = 0
    /\ cam0_segments = << >>
    /\ cam1_segments = << >>
    /\ tasks = << >>
    /\ status = << >>
    /\ outcome = << >>
    /\ future_result = << >>
    /\ slow = {}
    /\ cam0_results = << >>
    /\ cam1_results = << >>
    /\ completion = << >>
    /\ pc = "idle"
    /\ returned = << >>

IdlePair ==
    /\ cam0_frames = << >>
    /\ cam1_frames = << >>
    /\ pairs = << >>
    /\ cam0_only = {}
    /\ cam1_only = {}
    /\ prev_pairs = << >>
    /\ calls = 0

IdleStitch ==
    /\ output_dir_ok = TRUE
    /\ stitch_fails = {}
    /\ stitch_pc = "idle"
    /\ attempted = << >>
    /\ stitched_frames = << >>

IdleSync ==
    /\ cam0_timestamps = << >>
    /\ cam1_timestamps = << >>
    /\ sample_points = 0
    /\ sync_pc = "idle"
    /\ sync_analysis = << >>

IdleRating ==
    /\ rating_args = << >>
    /\ rating_out = << >>

IdleMain ==
    /\ config_ok = TRUE
    /\ input_dir_ok = TRUE
    /\ frame_count_threshold = 0
    /\ user_continues = TRUE
    /\ runs = << >>

IdleCalls ==
    /\ rating_calls = << >>
    /\ rating_results = << >>

IdleConfig ==
    /\ config_dict = << >>
    /\ config_result = << >>

IdleLoad ==
    /\ load_futures = << >>
    /\ load_pending = {}
    /\ ts_results = << >>
    /\ load_pc = "idle"
    /\ combined = << >>

IdleSeq ==
    /\ seq_calls = << >>
    /\ seq_extracted = << >>
    /\ par_extracted = << >>

IdleStream ==
    /\ stream_segments = << >>
    /\ stream_outcomes = << >>
    /\ stream_pos = << >>
    /\ extracted_frames_dict = << >>
    /\ stitch_queue = << >>
    /\ queued = << >>
    /\ stop_event = FALSE
    /\ stop_early = FALSE
    /\ stream_fails = {}
    /\ taken = << >>
    /\ stitched_count = 0
    /\ stitcher_pc = "idle"

IdleLast ==
    /\ IdleCalls
    /\ IdleConfig
    /\ IdleLoad
    /\ IdleSeq
    /\ IdleStream

IdleLater ==
    /\ IdleStitch
    /\ IdleSync
    /\ IdleRating
    /\ IdleMain
    /\ IdleLast

\* ===================================================================
\* FrameExtractor.should_extract_frame        (frame_extraction.py 94-111)
\* ===================================================================
ShouldExtractFrame_OffByOne(global_frame_number, interval) ==
    IF global_frame_number < 1
    THEN FALSE
    ELSE global_frame_number % interval = 0

ShouldExtractFrame(global_frame_number, interval) ==
    IF global_frame_number < 1
    THEN FALSE
    ELSE (global_frame_number - 1) % interval = 0

\* FrameExtractor.__init__ rejects sampling_interval < 1, so an extractor
\* only ever holds an interval >= 1.
InitSample ==
    /\ sampling_interval \in 1..MaxSampleInterval
    /\ total_frames \in 1..MaxTotal
    /\ scan_g = 0
    /\ accepted = << >>
    /\ probe = << >>
    /\ IdleExtract
    /\ IdlePair
    /\ IdleLater

\* One iteration of "for frame_num in range(1, total_frames + 1)".
ScanFrame ==
    /\ scan_g < total_frames
    /\ scan_g' = scan_g + 1
    /\ accepted' = IF ShouldExtractFrame(scan_g + 1, sampling_interval)
                   THEN Append(accepted, scan_g + 1)
                   ELSE accepted
    /\ UNCHANGED << sampling_interval, total_frames, probe >>
    /\ UNCHANGED extractVars
    /\ UNCHANGED pairVars
    /\ UNCHANGED laterVars

\* A call with a frame number below 1.
ProbeNonPositive ==
    /\ \E g \in (0 - MaxProbe)..0 :
          probe' = << [g |-> g, result |-> ShouldExtractFrame(g, sampling_interval)] >>
    /\ UNCHANGED << sampling_interval, total_frames, scan_g, accepted >>
    /\ UNCHANGED extractVars
    /\ UNCHANGED pairVars
    /\ UNCHANGED laterVars

NextSample ==
    \/ ScanFrame
    \/ ProbeNonPositive

SpecSample == InitSample /\ [][NextSample]_vars

\* The arithmetic progression 1, 1+N, 1+2N, ... cut at F.
Progression(N, F) == { g \in 1..F : \E k \in 0..F : g = 1 + k * N }

\* C1: after scanning 1..g, the accepted numbers are exactly the progression
\* 1, 1+N, 1+2N, ... within 1..g, listed ascending: the first is 1,
\* neighbours differ by exactly N, once the scan has covered 1..F the last
\* accepted number plus N exceeds F, and every call with a number below 1
\* answers false.
C1_SamplingPattern ==
    /\ Range(accepted) = Progression(sampling_interval, scan_g)
    /\ Len(accepted) = Cardinality(Progression(sampling_interval, scan_g))
    /\ (scan_g >= 1 => accepted[1] = 1)
    /\ \A i \in 2..Len(accepted) : accepted[i] - accepted[i-1] = sampling_interval
    /\ (scan_g = total_frames /\ scan_g >= 1
            => accepted[Len(accepted)] + sampling_interval > total_frames)
    /\ \A i \in DOMAIN probe : probe[i].g < 1 /\ probe[i].result = FALSE

C1_Witness ==
    /\ scan_g = total_frames
    /\ sampling_interval >= 2
    /\ Len(accepted) >= 3
    /\ accepted[3] = 1 + 2 * sampling_interval
    /\ probe # << >>
    /\ probe[1].g = 0

\* ===================================================================
\* extract_segment_frames: the worker     (multiprocess_extraction.py 30-103)
\* ===================================================================
Cameras == { "cam0", "cam1" }

\* VideoSegment (video_discovery.py 18-31); discover_videos keeps only
\* segments with frame_count > 0 (line 93).
SegmentsOf(camera_id) ==
    [ camera_id : { camera_id },
      segment_number : 1..MaxSegNum,
      frame_count : 1..MaxFrames ]

\* The dictionary built at lines 77-81.  save_frame (frame_extraction.py
\* 206-207) names the file by the output directory of the camera and the
\* global frame number.
FrameMetadata(global_frame_number, camera_id) ==
    [ global_frame_number |-> global_frame_number,
      camera_id |-> camera_id,
      file_path |-> << camera_id, global_frame_number >> ]

\* What a worker can meet in its segment file: the file does not open
\* (line 52), cap.read() delivers `decoded` frames and then ends the stream
\* (line 61) or raises (line 93), and save_frame raises for the frame at
\* local position bad_save (line 84; 0: every save succeeds).
NoOutcome == [ kind |-> "unknown", decoded |-> 0, bad_save |-> 0 ]

Outcomes ==
    { o \in [ kind : { "ok" }, decoded : 0..MaxDecoded, bad_save : 0..MaxDecoded ] :
          o.bad_save <= o.decoded }
    \cup { [ kind |-> "open_fail", decoded |-> 0, bad_save |-> 0 ] }
    \cup [ kind : { "raise" }, decoded : 0..MaxDecoded, bad_save : { 0 } ]

Failed(o) == o.kind \in { "open_fail", "raise" }

\* The while loop of lines 59-86, from local_frame_number on.
RECURSIVE ReadLoop(_, _, _, _)
ReadLoop_LocalNumbering(task, o, local_frame_number, extracted_frames) ==
    IF local_frame_number >= o.decoded
    THEN extracted_frames
    ELSE LET local == local_frame_number + 1
         IN  IF /\ ShouldExtractFrame(local, task.sampling_interval)
                /\ o.bad_save # local
             THEN ReadLoop(task, o, local,
                           Append(extracted_frames,
                                  FrameMetadata(local, task.camera_id)))
             ELSE ReadLoop(task, o, local, extracted_frames)

ReadLoop(task, o, local_frame_number, extracted_frames) ==
    IF local_frame_number >= o.decoded
    THEN extracted_frames
    ELSE LET local == local_frame_number + 1
             global_frame_number == task.global_frame_offset + local
         IN  IF /\ ShouldExtractFrame(global_frame_number, task.sampling_interval)
                /\ o.bad_save # local
             THEN ReadLoop(task, o, local,
                           Append(extracted_frames,
                                  FrameMetadata(global_frame_number, task.camera_id)))
             ELSE ReadLoop(task, o, local, extracted_frames)

ExtractSegmentFrames_PartialOnRaise(task, o) ==
    IF o.kind = "open_fail"
    THEN << >>
    ELSE ReadLoop(task, o, 0, << >>)

ExtractSegmentFrames(task, o) ==
    IF o.kind = "open_fail"
    THEN << >>
    ELSE IF o.kind = "raise"
         THEN << >>
         ELSE ReadLoop(task, o, 0, << >>)

\* ===================================================================
\* MultiprocessExtractor.extract_all_frames (multiprocess_extraction.py 120-234)
\* ===================================================================
\* sorted(..., key=lambda s: s.segment_number): Python's sort is stable.
RECURSIVE InsertSegment(_, _)
InsertSegment(sorted, seg) ==
    IF sorted = << >>
    THEN << seg >>
    ELSE IF sorted[Len(sorted)].segment_number <= seg.segment_number
         THEN Append(sorted, seg)
         ELSE Append(InsertSegment(SubSeq(sorted, 1, Len(sorted) - 1), seg),
                     sorted[Len(sorted)])

RECURSIVE SortSegments(_)
SortSegments_NoSort(segments) == segments

SortSegments(segments) ==
    IF segments = << >>
    THEN << >>
    ELSE InsertSegment(SortSegments(SubSeq(segments, 1, Len(segments) - 1)),
                       segments[Len(segments)])

\* The loops of lines 142-152 and 155-165 over the sorted segments.
RECURSIVE BuildTasks(_, _, _, _)
BuildTasks(sorted, camera_id, interval, offset) ==
    IF sorted = << >>
    THEN << >>
    ELSE << [ segment |-> Head(sorted),
              camera_id |-> camera_id,
              sampling_interval |-> interval,
              global_frame_offset |-> offset ] >>
         \o BuildTasks(Tail(sorted), camera_id, interval,
                       offset + Head(sorted).frame_count)

\* list.sort(key=lambda x: x['global_frame_number']), lines 224-225 (stable).
RECURSIVE InsertFrame(_, _)
InsertFrame(sorted, frame) ==
    IF sorted = << >>
    THEN << frame >>
    ELSE IF sorted[Len(sorted)].global_frame_number <= frame.global_frame_number
         THEN Append(sorted, frame)
         ELSE Append(InsertFrame(SubSeq(sorted, 1, Len(sorted) - 1), frame),
                     sorted[Len(sorted)])

RECURSIVE SortFrames(_)
SortFrames_NoSort(frames) == frames

SortFrames(frames) ==
    IF frames = << >>
    THEN << >>
    ELSE InsertFrame(SortFrames(SubSeq(frames, 1, Len(frames) - 1)),
                     frames[Len(frames)])

TaskIds == DOMAIN tasks

Busy == { i \in TaskIds : status[i] \in { "running", "hung" } }

Init ==
    /\ sampling_interval \in 1..MaxInterval
    /\ max_workers \in 1..MaxWorkers
    /\ \E n0 \in 0..MaxTasks :
          \E n1 \in 0..(MaxTasks - n0) :
              /\ cam0_segments \in [ 1..n0 -> SegmentsOf("cam0") ]
              /\ cam1_segments \in [ 1..n1 -> SegmentsOf("cam1") ]
    /\ tasks = << >>
    /\ status = << >>
    /\ outcome = << >>
    /\ future_result = << >>
    /\ slow = {}
    /\ cam0_results = << >>
    /\ cam1_results = << >>
    /\ completion = << >>
    /\ pc = "call"
    /\ returned = << >>
    /\ IdleSample
    /\ IdlePair
    /\ IdleLater

\* Lines 139-191: the tasks are built with their offsets and all of them are
\* submitted to the pool.
SubmitAll ==
    /\ pc = "call"
    /\ LET built == BuildTasks(SortSegments(cam0_segments), "cam0",
                               sampling_interval, 0)
                    \o BuildTasks(SortSegments(cam1_segments), "cam1",
                                  sampling_interval, 0)
       IN  /\ tasks' = built
           /\ status' = [ i \in DOMAIN built |-> "pending" ]
           /\ outcome' = [ i \in DOMAIN built |-> NoOutcome ]
           /\ future_result' = [ i \in DOMAIN built |-> << >> ]
    /\ cam0_results' = << >>
    /\ cam1_results' = << >>
    /\ pc' = "collecting"
    /\ UNCHANGED << sampling_interval, max_workers, cam0_segments, cam1_segments,
                    slow, completion, returned >>
    /\ UNCHANGED sampleVars
    /\ UNCHANGED pairVars
    /\ UNCHANGED laterVars

\* A free worker process of the pool takes a pending task.
WorkerStart(i) ==
    /\ i \in TaskIds
    /\ pc = "collecting"
    /\ status[i] = "pending"
    /\ Cardinality(Busy) < max_workers
    /\ status' = [ status EXCEPT ![i] = "running" ]
    /\ UNCHANGED << sampling_interval, max_workers, cam0_segments, cam1_segments,
                    tasks, outcome, future_result, slow, cam0_results,
                    cam1_results, completion, pc, returned >>
    /\ UNCHANGED sampleVars
    /\ UNCHANGED pairVars
    /\ UNCHANGED laterVars

\* extract_segment_frames returns; its future is done.  over: the run took
\* longer than the per-task timeout of line 197.
WorkerFinish(i) ==
    /\ i \in TaskIds
    /\ status[i] = "running"
    /\ \E o \in Outcomes, over \in BOOLEAN :
          /\ over => Cardinality(slow) < MaxSlow
          /\ outcome' = [ outcome EXCEPT ![i] = o ]
          /\ future_result' = [ future_result EXCEPT
                                  ![i] = ExtractSegmentFrames(tasks[i], o) ]
          /\ slow' = IF over THEN slow \cup { i } ELSE slow
    /\ status' = [ status EXCEPT ![i] = "done" ]
    /\ UNCHANGED << sampling_interval, max_workers, cam0_segments, cam1_segments,
                    tasks, cam0_results, cam1_results, completion, pc, returned >>
    /\ UNCHANGED sampleVars
    /\ UNCHANGED pairVars
    /\ UNCHANGED laterVars

\* The worker blocks for ever in cap.read() or save_frame: its future never
\* completes.
WorkerHang(i) ==
    /\ i \in TaskIds
    /\ status[i] = "running"
    /\ Cardinality(slow) < MaxSlow
    /\ status' = [ status EXCEPT ![i] = "hung" ]
    /\ slow' = slow \cup { i }
    /\ UNCHANGED << sampling_interval, max_workers, cam0_segments, cam1_segments,
                    tasks, outcome, future_result, cam0_results, cam1_results,
                    completion, pc, returned >>
    /\ UNCHANGED sampleVars
    /\ UNCHANGED pairVars
    /\ UNCHANGED laterVars

\* One iteration of the loop of lines 194-214: as_completed yields a future
\* that is done, so future.result(timeout=300) returns at once.  The worker
\* catches every Exception itself (line 93), so no modelled future carries
\* one and the handler of lines 211-214 adds nothing to either list.
Collect(i) ==
    /\ i \in TaskIds
    /\ pc = "collecting"
    /\ status[i] = "done"
    /\ cam0_results' = IF tasks[i].camera_id = "cam0"
                       THEN cam0_results \o future_result[i]
                       ELSE cam0_results
    /\ cam1_results' = IF tasks[i].camera_id = "cam0"
                       THEN cam1_results
                       ELSE cam1_results \o future_result[i]
    /\ status' = [ status EXCEPT ![i] = "collected" ]
    /\ completion' = Append(completion, i)
    /\ UNCHANGED << sampling_interval, max_workers, cam0_segments, cam1_segments,
                    tasks, outcome, future_result, slow, pc, returned >>
    /\ UNCHANGED sampleVars
    /\ UNCHANGED pairVars
    /\ UNCHANGED laterVars

\* Lines 216-234: as_completed is exhausted once every future is done; the
\* pool is shut down, both lists are sorted and returned.
ReturnResults ==
    /\ pc = "collecting"
    /\ \A i \in TaskIds : status[i] = "collected"
    /\ cam0_results' = SortFrames(cam0_results)
    /\ cam1_results' = SortFrames(cam1_results)
    /\ returned' = << SortFrames(cam0_results), SortFrames(cam1_results) >>
    /\ pc' = "returned"
    /\ UNCHANGED << sampling_interval, max_workers, cam0_segments, cam1_segments,
                    tasks, status, outcome, future_result, slow, completion >>
    /\ UNCHANGED sampleVars
    /\ UNCHANGED pairVars
    /\ UNCHANGED laterVars

Next ==
    \/ SubmitAll
    \/ \E i \in 1..MaxTasks : WorkerStart(i)
    \/ \E i \in 1..MaxTasks : WorkerFinish(i)
    \/ \E i \in 1..MaxTasks : WorkerHang(i)
    \/ \E i \in 1..MaxTasks : Collect(i)
    \/ ReturnResults

Spec == Init /\ [][Next]_vars

\* The operating system runs every worker process that has work, a worker
\* that does not block for ever returns, and the scheduler's own loop is
\* never starved.  Nothing makes a hung worker come back.
FairSpec ==
    /\ Spec
    /\ WF_vars(SubmitAll)
    /\ \A i \in 1..MaxTasks : WF_vars(WorkerStart(i))
    /\ \A i \in 1..MaxTasks : WF_vars(WorkerFinish(i))
    /\ \A i \in 1..MaxTasks : WF_vars(Collect(i))
    /\ WF_vars(ReturnResults)

\* extract_all_frames called with up to MaxSegs segments, followed up to the
\* submission of the tasks.
InitTasks ==
    /\ sampling_interval \in 1..MaxInterval
    /\ max_workers = MaxWorkers
    /\ \E n0 \in 0..MaxSegs :
          \E n1 \in 0..(MaxSegs - n0) :
              /\ cam0_segments \in [ 1..n0 -> SegmentsOf("cam0") ]
              /\ cam1_segments \in [ 1..n1 -> SegmentsOf("cam1") ]
    /\ tasks = << >>
    /\ status = << >>
    /\ outcome = << >>
    /\ future_result = << >>
    /\ slow = {}
    /\ cam0_results = << >>
    /\ cam1_results = << >>
    /\ completion = << >>
    /\ pc = "call"
    /\ returned = << >>
    /\ IdleSample
    /\ IdlePair
    /\ IdleLater

NextTasks == SubmitAll

SpecTasks == InitTasks /\ [][NextTasks]_vars

\* ------------------------------------------------- what the claims refer to
SegmentsArg(camera_id) ==
    IF camera_id = "cam0" THEN cam0_segments ELSE cam1_segments

CamTasks(camera_id) == SelectSeq(tasks, LAMBDA t : t.camera_id = camera_id)

Returned(camera_id) ==
    IF camera_id = "cam0" THEN returned[1] ELSE returned[2]

\* Positions of the argument list whose segment number is strictly smaller
\* than that of position p.
StrictlySmaller(L, p) ==
    { q \in DOMAIN L : L[q].segment_number < L[p].segment_number }

\* Positions that an ascending stable sort by segment_number places before
\* position p.
SortedBefore(L, p) ==
    { q \in DOMAIN L :
        \/ L[q].segment_number < L[p].segment_number
        \/ L[q].segment_number = L[p].segment_number /\ q < p }

FrameCountOver(L, P) ==
    SeqSum([ q \in DOMAIN L |-> IF q \in P THEN L[q].frame_count ELSE 0 ])

\* The task built for position p of the argument list.
TaskOfPosition(camera_id, p) ==
    CamTasks(camera_id)[Cardinality(SortedBefore(SegmentsArg(camera_id), p)) + 1]

\* C2 as stated: the offset of every task is the sum of frame_count over the
\* same-camera segments with a strictly smaller segment_number, whatever the
\* order of the list passed in.
C2_OffsetStrictlySmaller ==
    pc # "call" =>
        \A c \in Cameras :
            /\ Len(CamTasks(c)) = Len(SegmentsArg(c))
            /\ \A p \in DOMAIN SegmentsArg(c) :
                  /\ TaskOfPosition(c, p).segment = SegmentsArg(c)[p]
                  /\ TaskOfPosition(c, p).global_frame_offset
                       = FrameCountOver(SegmentsArg(c),
                                        StrictlySmaller(SegmentsArg(c), p))

\* C2 (amended): for each camera and any order of the list passed in, the
\* offset of a segment's task is the sum of frame_count over the same-camera
\* segments that the stable ascending sort by segment_number places before
\* it: those with a strictly smaller segment_number and those with an equal
\* segment_number that come earlier in the list.  Gaps change nothing, and
\* with distinct segment numbers this is the sum over the strictly smaller
\* ones.
C2_OffsetSortedPrefix ==
    pc # "call" =>
        \A c \in Cameras :
            /\ Len(CamTasks(c)) = Len(SegmentsArg(c))
            /\ \A p \in DOMAIN SegmentsArg(c) :
                  /\ TaskOfPosition(c, p).segment = SegmentsArg(c)[p]
                  /\ TaskOfPosition(c, p).global_frame_offset
                       = FrameCountOver(SegmentsArg(c),
                                        SortedBefore(SegmentsArg(c), p))
                  /\ (\A q \in DOMAIN SegmentsArg(c) :
                         q # p => SegmentsArg(c)[q].segment_number
                                    # SegmentsArg(c)[p].segment_number)
                       => TaskOfPosition(c, p).global_frame_offset
                            = FrameCountOver(SegmentsArg(c),
                                             StrictlySmaller(SegmentsArg(c), p))

\* Three cam0 segments passed in descending order, with a gap (no number 2);
\* and a list holding the number 1 twice behind the number 3.
C2_Witness ==
    /\ pc = "collecting"
    /\ Len(cam0_segments) = 3
    /\ cam0_segments[1].segment_number = 3
    /\ cam0_segments[2].segment_number = 1
    /\ cam0_segments[3].segment_number = 1
    /\ cam0_segments[2].frame_count = 2
    /\ tasks[1].segment = cam0_segments[2]
    /\ tasks[2].global_frame_offset = 2
    /\ tasks[3].segment = cam0_segments[1]
    /\ tasks[3].global_frame_offset = 2 + cam0_segments[3].frame_count

\* ------------------------------------------------------ worker results
Finished(i) == status[i] \in { "done", "collected" }

\* Frames announced by the segments of the same camera that are ordered
\* before task i.
OffsetOf(i) ==
    SeqSum([ j \in DOMAIN tasks |->
               IF j < i /\ tasks[j].camera_id = tasks[i].camera_id
               THEN tasks[j].segment.frame_count
               ELSE 0 ])

\* C3: every record a worker emits for its segment carries the number
\* offset + i of a frame it decoded at local position i >= 1, that number
\* passes should_extract_frame, the records are in decode order, and this
\* holds whichever tasks have run or completed before.
C3_GlobalNumbering ==
    \A t \in TaskIds :
        Finished(t) =>
            /\ tasks[t].global_frame_offset = OffsetOf(t)
            /\ \A k \in DOMAIN future_result[t] :
                  LET r == future_result[t][k]
                      i == r.global_frame_number - OffsetOf(t)
                  IN  /\ i \in 1..outcome[t].decoded
                      /\ ShouldExtractFrame(r.global_frame_number, sampling_interval)
                      /\ r.camera_id = tasks[t].camera_id
            /\ \A k \in 1..(Len(future_result[t]) - 1) :
                  future_result[t][k].global_frame_number
                    < future_result[t][k + 1].global_frame_number

\* The second segment of a camera has emitted local frame 2 as F1 + 2 while
\* the first segment's task has not completed.
C3_Witness ==
    /\ Len(tasks) = 2
    /\ tasks[1].camera_id = tasks[2].camera_id
    /\ status[1] \in { "pending", "running" }
    /\ status[2] = "collected"
    /\ outcome[2].kind = "ok"
    /\ tasks[1].segment.frame_count = 2
    /\ Len(future_result[2]) >= 1
    /\ future_result[2][Len(future_result[2])].global_frame_number = 2 + 2

\* ------------------------------------------------------ merged results
RECURSIVE ConcatResults(_, _, _)
ConcatResults(camera_id, S, i) ==
    IF i > Len(tasks)
    THEN << >>
    ELSE (IF i \in S /\ tasks[i].camera_id = camera_id
          THEN future_result[i]
          ELSE << >>)
         \o ConcatResults(camera_id, S, i + 1)

SameBag(a, b) == \A x \in Range(a) \cup Range(b) : Count(a, x) = Count(b, x)

Ascending(frames) ==
    \A k \in 1..(Len(frames) - 1) :
        frames[k].global_frame_number <= frames[k + 1].global_frame_number

StrictlyAscending(frames) ==
    \A k \in 1..(Len(frames) - 1) :
        frames[k].global_frame_number < frames[k + 1].global_frame_number

\* Records with one number are one record, so an ascending arrangement of a
\* given bag of records is unique.
KeyDeterminesRecord(frames) ==
    \A k, l \in DOMAIN frames :
        frames[k].global_frame_number = frames[l].global_frame_number
            => frames[k] = frames[l]

\* C4: the lists handed to the caller are fixed by the tasks and their
\* results alone: each is the ascending arrangement of the records of the
\* camera's tasks, whatever the completion order was, and the caller is
\* handed nothing before that sort.
C4_OrderIndependent ==
    /\ pc # "returned" => returned = << >>
    /\ pc = "returned" =>
          /\ Len(returned) = 2
          /\ \A c \in Cameras :
                /\ Ascending(Returned(c))
                /\ KeyDeterminesRecord(Returned(c))
                /\ SameBag(Returned(c), ConcatResults(c, TaskIds, 1))

\* Two tasks of one camera with frames each, the later segment completing
\* first.
C4_Witness ==
    /\ pc = "returned"
    /\ completion = << 2, 1 >>
    /\ tasks[1].camera_id = "cam0"
    /\ tasks[2].camera_id = "cam0"
    /\ future_result[1] # << >>
    /\ future_result[2] # << >>
    /\ Len(returned[1]) >= 2
    /\ StrictlyAscending(returned[1])

\* C5 as stated: after the final sort each per-camera list is strictly
\* increasing in global_frame_number, for every decode outcome.
C5_StrictlyIncreasing ==
    pc = "returned" => \A c \in Cameras : StrictlyAscending(Returned(c))

\* C9: when tasks fail (the segment does not open, decoding raises), the call
\* still returns, every task has been run and collected, each failing task
\* contributed nothing, and each returned list is the ascending union of the
\* results of the camera's non-failing tasks.
FailedTasks == { i \in TaskIds : Finished(i) /\ Failed(outcome[i]) }

C9_FailureIsolated ==
    /\ \A i \in FailedTasks : future_result[i] = << >>
    /\ pc = "returned" =>
          /\ \A i \in TaskIds : status[i] = "collected"
          /\ \A c \in Cameras :
                /\ Ascending(Returned(c))
                /\ SameBag(Returned(c), ConcatResults(c, TaskIds \ FailedTasks, 1))
                /\ \A i \in TaskIds \ FailedTasks :
                      tasks[i].camera_id = c
                          => Range(future_result[i]) \subseteq Range(Returned(c))

\* The first segment raised after decoding frames, the second one is intact
\* and its frames are returned.
C9_Witness ==
    /\ pc = "returned"
    /\ Len(tasks) = 2
    /\ tasks[1].camera_id = "cam0"
    /\ tasks[2].camera_id = "cam0"
    /\ outcome[1].kind = "raise"
    /\ outcome[1].decoded >= 1
    /\ outcome[2].kind = "ok"
    /\ future_result[2] # << >>
    /\ returned[1] = future_result[2]

\* C10 as stated: once a task has run past the per-task timeout (or hangs),
\* the call still eventually returns, and what it returns are the sorted
\* results of the other tasks only.
C10_TimeoutLikeFailure ==
    (slow # {}) ~>
        (/\ pc = "returned"
         /\ \A c \in Cameras :
               /\ Ascending(Returned(c))
               /\ SameBag(Returned(c), ConcatResults(c, TaskIds \ slow, 1)))

\* The files task i has written and returned: save_frame's file_path of
\* every frame in the list of the worker.
Written(i) == { future_result[i][k].file_path : k \in DOMAIN future_result[i] }

\* C24: the sets of destination files written by any two distinct tasks of
\* one extraction run are disjoint.
C24_DisjointDestinations ==
    \A i, j \in TaskIds : i # j => Written(i) \cap Written(j) = {}

\* ===================================================================
\* FrameStitcher.find_frame_pairs               (frame_stitching.py 58-91)
\* ===================================================================
\* ExtractedFrame (frame_extraction.py 19-30), as main.py builds them from
\* the metadata of the extraction (lines 355-371).  The caller may pass any
\* list: unsorted, and with a number occurring more than once.
FramesOf(camera_id) ==
    { FrameMetadata(g, camera_id) : g \in 1..MaxG }

Numbers(frames) == { frames[k].global_frame_number : k \in DOMAIN frames }

Max(S) == CHOOSE m \in S : \A x \in S : x <= m

Min(S) == CHOOSE m \in S : \A x \in S : m <= x

\* {frame.global_frame_number: frame for frame in frames}: a later frame
\* replaces an earlier one with the same number (lines 73-74).
FrameMap(frames) ==
    [ g \in Numbers(frames) |->
        frames[Max({ k \in DOMAIN frames : frames[k].global_frame_number = g })] ]

\* sorted(...) of a set of numbers (line 77).
RECURSIVE Sorted(_)
Sorted_Descending(S) ==
    IF S = {} THEN << >> ELSE << Max(S) >> \o Sorted(S \ { Max(S) })

Sorted(S) ==
    IF S = {} THEN << >> ELSE << Min(S) >> \o Sorted(S \ { Min(S) })

\* Line 77: the numbers both maps hold.
CommonFrameNumbers(cam0_map, cam1_map) ==
    Sorted(DOMAIN cam0_map \cap DOMAIN cam1_map)

\* Lines 80-81: the numbers of one map that the other lacks.
OnlyIn_NotSubtracted(a_map, b_map) == DOMAIN a_map

OnlyIn(a_map, b_map) == DOMAIN a_map \ DOMAIN b_map

\* Line 89.
MakePairs_Crossed(cam0_map, cam1_map, common_frame_numbers) ==
    [ k \in DOMAIN common_frame_numbers |->
        << cam0_map[common_frame_numbers[k]],
           cam1_map[common_frame_numbers[Len(common_frame_numbers) + 1 - k]] >> ]

MakePairs(cam0_map, cam1_map, common_frame_numbers) ==
    [ k \in DOMAIN common_frame_numbers |->
        << cam0_map[common_frame_numbers[k]], cam1_map[common_frame_numbers[k]] >> ]

InitPair ==
    /\ sampling_interval = 1
    /\ cam0_frames \in SeqsUpTo(FramesOf("cam0"), MaxLen)
    /\ cam1_frames \in SeqsUpTo(FramesOf("cam1"), MaxLen)
    /\ pairs = << >>
    /\ cam0_only = {}
    /\ cam1_only = {}
    /\ prev_pairs = << >>
    /\ calls = 0
    /\ IdleSample
    /\ IdleExtract
    /\ IdleLater

\* One call of find_frame_pairs on the two lists (lines 73-91).
FindFramePairs ==
    /\ calls < MaxCalls
    /\ LET cam0_map == FrameMap(cam0_frames)
           cam1_map == FrameMap(cam1_frames)
           common_frame_numbers == CommonFrameNumbers(cam0_map, cam1_map)
       IN  /\ cam0_only' = OnlyIn(cam0_map, cam1_map)
           /\ cam1_only' = OnlyIn(cam1_map, cam0_map)
           /\ pairs' = MakePairs(cam0_map, cam1_map, common_frame_numbers)
    /\ prev_pairs' = pairs
    /\ calls' = calls + 1
    /\ UNCHANGED << sampling_interval, cam0_frames, cam1_frames >>
    /\ UNCHANGED sampleVars
    /\ UNCHANGED extractVars
    /\ UNCHANGED laterVars

NextPair == FindFramePairs

SpecPair == InitPair /\ [][NextPair]_vars

PairedNumbers == { pairs[k][1].global_frame_number : k \in DOMAIN pairs }

\* C6: a pair is returned for the number g exactly when both lists hold a
\* frame numbered g; the two members of a pair carry one number, the first
\* is a frame of the cam0 list and the second a frame of the cam1 list.
C6_ExactMatch ==
    calls >= 1 =>
        /\ PairedNumbers = Numbers(cam0_frames) \cap Numbers(cam1_frames)
        /\ \A k \in DOMAIN pairs :
              /\ pairs[k][1].global_frame_number = pairs[k][2].global_frame_number
              /\ pairs[k][1] \in Range(cam0_frames)
              /\ pairs[k][2] \in Range(cam1_frames)

\* Neighbouring numbers 2 and 3 on the two sides are not paired, 1 and 4 are.
C6_Witness ==
    /\ calls >= 1
    /\ Numbers(cam0_frames) = { 1, 2, 4 }
    /\ Numbers(cam1_frames) = { 1, 3, 4 }
    /\ PairedNumbers = { 1, 4 }
    /\ Len(pairs) = 2

C8_Partition ==
    calls >= 1 =>
        /\ cam0_only = Numbers(cam0_frames) \ Numbers(cam1_frames)
        /\ cam1_only = Numbers(cam1_frames) \ Numbers(cam0_frames)
        /\ PairedNumbers \cap cam0_only = {}
        /\ PairedNumbers \cap cam1_only = {}
        /\ cam0_only \cap cam1_only = {}
        /\ PairedNumbers \cup cam0_only \cup cam1_only
             = Numbers(cam0_frames) \cup Numbers(cam1_frames)
        /\ Len(pairs) = Cardinality(PairedNumbers)

\* The spec's example {1,101,201} against {1,101,301}, one position in the
\* progression standing for each number: {1,2,3} against {1,2,4}.
C8_Witness ==
    /\ calls >= 1
    /\ Numbers(cam0_frames) = { 1, 2, 3 }
    /\ Numbers(cam1_frames) = { 1, 2, 4 }
    /\ PairedNumbers = { 1, 2 }
    /\ cam0_only = { 3 }
    /\ cam1_only = { 4 }

\* ===================================================================
\* FrameStitcher.stitch_frames                (frame_stitching.py 268-341)
\* ===================================================================
MaxStitchLen == 2

\* StitchedFrame(global_frame_number, file_path), file_path being
\* output_dir / "frame_{frame_num:04d}.{output_format}" (lines 306-318).
StitchedFrame(frame_num) ==
    [global_frame_number |-> frame_num, file_path |-> << "stitched", frame_num >>]

\* The for loop of lines 304-337 from position idx on.  stitch_pair either
\* returns or raises StitchingError (lines 246-266); both except clauses
\* log and continue.  acc holds the locals stitched_frames and the calls made.
RECURSIVE StitchLoop(_, _, _, _)
StitchLoop_StopAtFailure(frame_pairs, fails, idx, acc) ==
    IF idx > Len(frame_pairs)
    THEN acc
    ELSE LET frame_num == frame_pairs[idx][1].global_frame_number
             called == Append(acc.attempted, frame_num)
         IN  IF frame_num \in fails
             THEN [acc EXCEPT !.attempted = called]
             ELSE StitchLoop(frame_pairs, fails, idx + 1,
                             [attempted |-> called,
                              stitched_frames |->
                                  Append(acc.stitched_frames, StitchedFrame(frame_num))])

StitchLoop(frame_pairs, fails, idx, acc) ==
    IF idx > Len(frame_pairs)
    THEN acc
    ELSE LET frame_num == frame_pairs[idx][1].global_frame_number
             called == Append(acc.attempted, frame_num)
         IN  IF frame_num \in fails
             THEN StitchLoop(frame_pairs, fails, idx + 1,
                             [acc EXCEPT !.attempted = called])
             ELSE StitchLoop(frame_pairs, fails, idx + 1,
                             [attempted |-> called,
                              stitched_frames |->
                                  Append(acc.stitched_frames, StitchedFrame(frame_num))])

InitStitch ==
    /\ sampling_interval = 1
    /\ cam0_frames \in SeqsUpTo(FramesOf("cam0"), MaxStitchLen)
    /\ cam1_frames \in SeqsUpTo(FramesOf("cam1"), MaxStitchLen)
    /\ pairs = << >>
    /\ cam0_only = {}
    /\ cam1_only = {}
    /\ prev_pairs = << >>
    /\ calls = 0
    /\ output_dir_ok \in BOOLEAN
    /\ stitch_fails \in SUBSET (1..MaxG)
    /\ stitch_pc = "call"
    /\ attempted = << >>
    /\ stitched_frames = << >>
    /\ IdleSample
    /\ IdleExtract
    /\ IdleSync
    /\ IdleRating
    /\ IdleMain
    /\ IdleLast

\* One call of stitch_frames: validate_output_directory raises
\* OutputDirectoryError (lines 290-294) or the pairs are found (line 297)
\* and stitched one after the other (lines 301-341).
StitchFrames ==
    /\ stitch_pc = "call"
    /\ IF ~output_dir_ok
       THEN /\ stitch_pc' = "raised"
            /\ UNCHANGED << pairs, cam0_only, cam1_only, attempted, stitched_frames >>
       ELSE LET cam0_map == FrameMap(cam0_frames)
                cam1_map == FrameMap(cam1_frames)
                frame_pairs == MakePairs(cam0_map, cam1_map,
                                         CommonFrameNumbers(cam0_map, cam1_map))
                done == StitchLoop(frame_pairs, stitch_fails, 1,
                                   [attempted |-> << >>, stitched_frames |-> << >>])
            IN  /\ pairs' = frame_pairs
                /\ cam0_only' = OnlyIn(cam0_map, cam1_map)
                /\ cam1_only' = OnlyIn(cam1_map, cam0_map)
                /\ attempted' = done.attempted
                /\ stitched_frames' = done.stitched_frames
                /\ stitch_pc' = "returned"
    /\ UNCHANGED << sampling_interval, cam0_frames, cam1_frames, prev_pairs, calls,
                    output_dir_ok, stitch_fails >>
    /\ UNCHANGED sampleVars
    /\ UNCHANGED extractVars
    /\ UNCHANGED << syncVars, ratingVars >>
    /\ UNCHANGED << mainVars, lastVars >>

NextStitch == StitchFrames

SpecStitch == InitStitch /\ [][NextStitch]_vars

StitchedNumbers == [ k \in DOMAIN stitched_frames |-> stitched_frames[k].global_frame_number ]

PairNumbers == [ k \in DOMAIN pairs |-> pairs[k][1].global_frame_number ]

Succeeds(frame_num) == frame_num \notin stitch_fails

\* C13: whichever pairs fail to stitch, stitch_frames returns (it does not
\* raise for them); the returned list holds exactly the pairs whose stitch
\* succeeded, each once, in ascending global_frame_number order, and every
\* pair, also one after a failing pair, was handed to stitch_pair.
C13_FailuresExcluded ==
    /\ output_dir_ok => stitch_pc # "raised"
    /\ stitch_pc = "returned" =>
          /\ StitchedNumbers = SelectSeq(PairNumbers, Succeeds)
          /\ StrictlyAscending(stitched_frames)
          /\ Range(StitchedNumbers) = PairedNumbers \ stitch_fails
          /\ attempted = PairNumbers

\* The first of two pairs fails, the second is attempted and returned.
C13_Witness ==
    /\ stitch_pc = "returned"
    /\ Len(pairs) = 2
    /\ PairNumbers[1] \in stitch_fails
    /\ PairNumbers[2] \notin stitch_fails
    /\ Len(stitched_frames) = 1
    /\ stitched_frames[1].global_frame_number = PairNumbers[2]

\* ===================================================================
\* TimestampAnalyzer                          (timestamp_analysis.py)
\* ===================================================================
\* Times are kept in microseconds, as the logs hold them (pts_us).  The code
\* divides a difference by 1000 before it compares with a bound in
\* milliseconds (line 157): d_us / 1000 < b is d_us < b * 1000.
UsPerMs == 1000

MaxStamps == 4
MaxPoints == 3

Abs(x) == IF x < 0 THEN 0 - x ELSE x

\* pts_us values: differences of 0, 10, 40 and 50 ms.
StampValues == { 0, 10 * UsPerMs, 50 * UsPerMs }

\* Lines 141-148.  Python's positions start at 0; position idx of a list is
\* element idx + 1 of the sequence.
SampleIndices_UnitStep(min_frames, points) ==
    IF min_frames <= points
    THEN [ k \in 1..min_frames |-> k - 1 ]
    ELSE [ k \in 1..points |-> k - 1 ]

SampleIndices(min_frames, points) ==
    IF min_frames <= points
    THEN [ k \in 1..min_frames |-> k - 1 ]
    ELSE LET step == min_frames \div points
         IN  [ k \in 1..points |-> (k - 1) * step ]

\* Lines 153-158: abs(drift) of each sampled position, in microseconds.
Drifts(c0, c1, sample_indices) ==
    [ k \in DOMAIN sample_indices |->
        Abs(c0[sample_indices[k] + 1] - c1[sample_indices[k] + 1]) ]

Buckets == { "<10ms", "10-30ms", "30-50ms", ">50ms" }

\* The four conditions of lines 171-174.
InBucket_OpenAtTen(b, d) ==
    CASE b = "<10ms"   -> d < 10 * UsPerMs
      [] b = "10-30ms" -> 10 * UsPerMs < d /\ d < 30 * UsPerMs
      [] b = "30-50ms" -> 30 * UsPerMs <= d /\ d < 50 * UsPerMs
      [] b = ">50ms"   -> d >= 50 * UsPerMs

InBucket(b, d) ==
    CASE b = "<10ms"   -> d < 10 * UsPerMs
      [] b = "10-30ms" -> 10 * UsPerMs <= d /\ d < 30 * UsPerMs
      [] b = "30-50ms" -> 30 * UsPerMs <= d /\ d < 50 * UsPerMs
      [] b = ">50ms"   -> d >= 50 * UsPerMs

\* Lines 170-175: sum(1 for d in drifts if ...), one count per key.
Distribution(drifts) ==
    [ b \in Buckets |-> Cardinality({ k \in DOMAIN drifts : InBucket(b, drifts[k]) }) ]

\* statistics.mean(drifts) < bound, the mean being SeqSum(drifts) / n.
MeanBelow(drift_sum, n, bound_ms) == drift_sum < bound_ms * UsPerMs * n

\* ------------------------------ _calculate_rating (lines 228-281)
\* The qualities are the code's strings: "excellent" is "优秀", "good" is
\* "良好", "fair" is "一般", "poor" is "较差".
\* Line 244.
StartQuality_SameBands(start_delay_us) ==
    IF Abs(start_delay_us) < 10 * UsPerMs THEN "excellent"
    ELSE IF Abs(start_delay_us) < 30 * UsPerMs THEN "good"
    ELSE IF Abs(start_delay_us) < 50 * UsPerMs THEN "fair"
    ELSE "poor"

StartQuality(start_delay_us) ==
    IF Abs(start_delay_us) < 10 * UsPerMs THEN "excellent"
    ELSE IF Abs(start_delay_us) < 50 * UsPerMs THEN "good"
    ELSE "fair"

DriftQuality_BandsSwapped(drift_sum, total_samples) ==
    IF MeanBelow(drift_sum, total_samples, 10) THEN "excellent"
    ELSE IF MeanBelow(drift_sum, total_samples, 30) THEN "fair"
    ELSE IF MeanBelow(drift_sum, total_samples, 50) THEN "good"
    ELSE "poor"

\* Lines 247-257, avg_drift_ms being drift_sum / total_samples.
DriftQuality(drift_sum, total_samples) ==
    IF MeanBelow(drift_sum, total_samples, 10) THEN "excellent"
    ELSE IF MeanBelow(drift_sum, total_samples, 30) THEN "good"
    ELSE IF MeanBelow(drift_sum, total_samples, 50) THEN "fair"
    ELSE "poor"

\* Lines 269-276.
Overall(drift_quality, start_quality) ==
    IF drift_quality = "excellent" /\ start_quality = "excellent" THEN "excellent"
    ELSE IF /\ drift_quality \in { "excellent", "good" }
            /\ start_quality \in { "excellent", "good" } THEN "good"
    ELSE IF drift_quality = "fair" THEN "fair"
    ELSE "poor"

CalculateRating(start_delay_us, drift_sum, total_samples) ==
    Overall(DriftQuality(drift_sum, total_samples), StartQuality(start_delay_us))

\* The bounds of the bands, and the value just below each.
BandEdges ==
    { 0, 10 * UsPerMs - 1, 10 * UsPerMs, 30 * UsPerMs - 1, 30 * UsPerMs,
      50 * UsPerMs - 1, 50 * UsPerMs }

\* A call of _calculate_rating with a start delay of either sign and an
\* average drift at or just below a bound of a band.
InitRating ==
    /\ sampling_interval = 1
    /\ \E n \in 1..MaxPoints :
          rating_args \in [ start_delay_us : BandEdges \cup { 0 - e : e \in BandEdges },
                            drift_sum : { n * e + d : e \in BandEdges \ { 0 }, d \in { 0, 1 } }
                                           \cup { 0 },
                            total_samples : { n } ]
    /\ rating_out = << >>
    /\ IdleSample
    /\ IdleExtract
    /\ IdlePair
    /\ IdleStitch
    /\ IdleSync
    /\ IdleMain
    /\ IdleLast

CallCalculateRating ==
    /\ rating_out = << >>
    /\ rating_out' = << CalculateRating(rating_args.start_delay_us,
                                        rating_args.drift_sum,
                                        rating_args.total_samples) >>
    /\ UNCHANGED << sampling_interval, rating_args >>
    /\ UNCHANGED << sampleVars, extractVars, pairVars, stitchVars, syncVars >>
    /\ UNCHANGED << mainVars, lastVars >>

NextRating == CallCalculateRating

SpecRating == InitRating /\ [][NextRating]_vars

\* The band of a value v given as the sum of n values, by the bounds the
\* spec names: excellent(<10) / good(<30) / fair(<50) / poor(>=50).
Band(sum, n) ==
    IF sum < 10 * UsPerMs * n THEN "excellent"
    ELSE IF sum < 30 * UsPerMs * n THEN "good"
    ELSE IF sum < 50 * UsPerMs * n THEN "fair"
    ELSE "poor"

Table(drift_band, start_band) ==
    IF drift_band = "excellent" /\ start_band = "excellent" THEN "excellent"
    ELSE IF /\ drift_band \in { "excellent", "good" }
            /\ start_band \in { "excellent", "good" } THEN "good"
    ELSE IF drift_band = "fair" THEN "fair"
    ELSE "poor"

\* C20 as stated: the average drift and the absolute start delay are both
\* put in the bands <10 / <30 / <50 / >=50, and the rating is the table's
\* entry for the two bands.
C20_SameBandsTable ==
    rating_out # << >> =>
        rating_out[1] = Table(Band(rating_args.drift_sum, rating_args.total_samples),
                              Band(Abs(rating_args.start_delay_us), 1))

\* C20, amended: the start delay has three bands, excellent (< 10 ms),
\* good (< 50 ms) and fair (>= 50 ms).  So the rating is excellent exactly
\* when average drift and |start delay| are both below 10 ms; good exactly
\* when the average drift is below 30 ms and |start delay| below 50 ms but
\* not both below 10 ms; fair exactly when the average drift is in
\* [30, 50) ms; and poor in every other case.
C20_RatingTable ==
    rating_out # << >> =>
        LET avg_lt(b) == rating_args.drift_sum < b * UsPerMs * rating_args.total_samples
            start_lt(b) == Abs(rating_args.start_delay_us) < b * UsPerMs
            rating == rating_out[1]
        IN  /\ rating \in { "excellent", "good", "fair", "poor" }
            /\ rating = "excellent" <=> (avg_lt(10) /\ start_lt(10))
            /\ rating = "good" <=>
                  (avg_lt(30) /\ start_lt(50) /\ ~(avg_lt(10) /\ start_lt(10)))
            /\ rating = "fair" <=> (~avg_lt(30) /\ avg_lt(50))
            /\ rating = "poor" <=> (~avg_lt(50) \/ (avg_lt(30) /\ ~start_lt(50)))

\* An average drift below 10 ms with a start delay of 30 ms is rated good.
C20_Witness ==
    /\ rating_out = << "good" >>
    /\ rating_args.drift_sum < 10 * UsPerMs * rating_args.total_samples
    /\ Abs(rating_args.start_delay_us) = 30 * UsPerMs

\* ------------------------------ analyze_sync_quality (lines 179-226)
InitSync ==
    /\ sampling_interval = 1
    /\ cam0_timestamps \in SeqsUpTo(StampValues, MaxStamps)
    /\ cam1_timestamps \in SeqsUpTo(StampValues, MaxStamps)
    /\ sample_points \in 1..MaxPoints
    /\ sync_pc = "call"
    /\ sync_analysis = << >>
    /\ IdleSample
    /\ IdleExtract
    /\ IdlePair
    /\ IdleStitch
    /\ IdleRating
    /\ IdleMain
    /\ IdleLast

\* calculate_timestamp_stats (lines 92-93) raises ValueError for a series
\* of fewer than 2 records.
TooShort(timestamps) == Len(timestamps) < 2

\* analyze_time_drift (lines 141-177) and the rating, for two series that
\* passed calculate_timestamp_stats.
SyncQuality(c0, c1, points) ==
    LET min_frames == IF Len(c0) <= Len(c1) THEN Len(c0) ELSE Len(c1)
        sample_indices == SampleIndices(min_frames, points)
        drifts == Drifts(c0, c1, sample_indices)
        start_delay_us == c0[1] - c1[1]
    IN  [ start_delay_us |-> start_delay_us,
          sample_indices |-> sample_indices,
          drifts |-> drifts,
          drift_distribution |-> Distribution(drifts),
          overall_rating |-> CalculateRating(start_delay_us, SeqSum(drifts), Len(drifts)) ]

\* One call of analyze_sync_quality.
AnalyzeSyncQuality ==
    /\ sync_pc = "call"
    /\ IF TooShort(cam0_timestamps) \/ TooShort(cam1_timestamps)
       THEN /\ sync_pc' = "raised"
            /\ sync_analysis' = << >>
       ELSE /\ sync_pc' = "returned"
            /\ sync_analysis' = << SyncQuality(cam0_timestamps, cam1_timestamps,
                                               sample_points) >>
    /\ UNCHANGED << sampling_interval, cam0_timestamps, cam1_timestamps, sample_points >>
    /\ UNCHANGED << sampleVars, extractVars, pairVars, stitchVars, ratingVars >>
    /\ UNCHANGED << mainVars, lastVars >>

NextSync == AnalyzeSyncQuality

SpecSync == InitSync /\ [][NextSync]_vars

MinFrames ==
    IF Len(cam0_timestamps) <= Len(cam1_timestamps)
    THEN Len(cam0_timestamps)
    ELSE Len(cam1_timestamps)

\* C18: with m the shorter length, the sampled positions are 0..m-1 when
\* m <= sample_points and otherwise i * (m // sample_points) for
\* i in 0..sample_points-1; they start at 0, strictly increase, and each
\* is a position of both series.
C18_SampleIndices ==
    sync_pc = "returned" =>
        LET idx == sync_analysis[1].sample_indices
            m == MinFrames
        IN  /\ m <= sample_points => idx = [ k \in 1..m |-> k - 1 ]
            /\ m > sample_points =>
                  /\ Len(idx) = sample_points
                  /\ \A k \in 1..sample_points :
                        idx[k] = (k - 1) * (m \div sample_points)
            /\ idx[1] = 0
            /\ \A k \in 1..(Len(idx) - 1) : idx[k] < idx[k + 1]
            /\ \A k \in DOMAIN idx : 0 <= idx[k] /\ idx[k] < m

\* Four records against two sample points: positions 0 and 2.
C18_Witness ==
    /\ sync_pc = "returned"
    /\ MinFrames = 4
    /\ sample_points = 2
    /\ sync_analysis[1].sample_indices = << 0, 2 >>

\* C19: the four bucket counts add up to the number of samples, and each
\* count is the number of samples whose absolute drift lies in the
\* bucket's range.
C19_BucketsPartition ==
    sync_pc = "returned" =>
        LET a == sync_analysis[1]
            d == a.drift_distribution
            n(lo, hi) == Cardinality({ k \in DOMAIN a.drifts :
                                         lo * UsPerMs <= a.drifts[k] /\ a.drifts[k] < hi * UsPerMs })
        IN  /\ DOMAIN d = Buckets
            /\ d["<10ms"] + d["10-30ms"] + d["30-50ms"] + d[">50ms"] = Len(a.drifts)
            /\ Len(a.drifts) = Len(a.sample_indices)
            /\ d["<10ms"] = n(0, 10)
            /\ d["10-30ms"] = n(10, 30)
            /\ d["30-50ms"] = n(30, 50)
            /\ d[">50ms"] = Len(a.drifts) - n(0, 50)

\* Three samples with drifts of exactly 10 ms, 40 ms and 50 ms.
C19_Witness ==
    /\ sync_pc = "returned"
    /\ sync_analysis[1].drifts = << 10 * UsPerMs, 40 * UsPerMs, 50 * UsPerMs >>
    /\ sync_analysis[1].drift_distribution["<10ms"] = 0
    /\ sync_analysis[1].drift_distribution["10-30ms"] = 1
    /\ sync_analysis[1].drift_distribution["30-50ms"] = 1
    /\ sync_analysis[1].drift_distribution[">50ms"] = 1

\* ===================================================================
\* main and signal_handler                             (main.py 45-455)
\* ===================================================================
\* Two runs of main take the same inputs (configuration, directories,
\* discovered segments, what the workers meet, which pairs fail to stitch,
\* the operator's answer, the interrupts) and each its own timestamp data.
\* Run 2 is the run with timestamp analysis switched off.
MaxMainSegs == 1
MaxMainStamps == 2

\* config.timestamp_sample_points (config.py line 39).
ConfigSamplePoints == 20

RunIds == { 1, 2 }

MainStamps == { 0, 50 * UsPerMs }

\* config.timestamp_analysis_enabled and the two combined series that
\* analyze_all_segments loads (timestamp_analysis.py 339-344).
TsInputs ==
    [ enabled : { TRUE },
      cam0 : SeqsUpTo({ 0 }, MaxMainStamps),
      cam1 : SeqsUpTo(MainStamps, MaxMainStamps) ]

TsDisabled == [ enabled |-> FALSE, cam0 |-> << >>, cam1 |-> << >> ]

\* The lists discover_videos returns (video_discovery.py 85-131): sorted by
\* segment number, every frame_count positive.
Discovered(camera_id) ==
    UNION { { s \in [ 1..n -> SegmentsOf(camera_id) ] :
                \A i \in 1..n : s[i].segment_number = i } : n \in 0..MaxMainSegs }

\* What the worker of a segment meets: the whole file read and saved, the
\* first frame not saved, or the file not opened.
MainOutcomes(segment) ==
    { [ kind |-> "ok", decoded |-> segment.frame_count, bad_save |-> 0 ],
      [ kind |-> "ok", decoded |-> segment.frame_count, bad_save |-> 1 ],
      [ kind |-> "open_fail", decoded |-> 0, bad_save |-> 0 ] }

\* Lines 139-165 of extract_all_frames on the discovered lists.
MainTasks ==
    BuildTasks(SortSegments(cam0_segments), "cam0", sampling_interval, 0)
    \o BuildTasks(SortSegments(cam1_segments), "cam1", sampling_interval, 0)

\* calculate_total_frame_counts and validate_frame_count_difference
\* (video_discovery.py 231-274): abs_diff / max * 100 > threshold.
TotalFrames(segments) == SeqSum([ i \in DOMAIN segments |-> segments[i].frame_count ])

ExceedsThreshold(cam0_total, cam1_total, threshold_percent) ==
    IF cam0_total = 0 /\ cam1_total = 0
    THEN FALSE
    ELSE LET max_frames == IF cam0_total >= cam1_total THEN cam0_total ELSE cam1_total
         IN  Abs(cam0_total - cam1_total) * 100 > threshold_percent * max_frames

\* The state of one run before main is entered.
NewRun(ts) ==
    [ stage |-> "load_config",
      ts |-> ts,
      shutdown_requested |-> FALSE,     \* the global _shutdown_requested
      stop_at |-> "never",              \* where main was when the flag was set
      sync_analysis |-> << >>,          \* << >> is None
      analysis_failed |-> FALSE,        \* the warning of line 288 was logged
      tasks |-> << >>,                  \* the tasks submitted to the pool
      cam0_frames |-> << >>,
      cam1_frames |-> << >>,
      frame_pairs |-> << >>,
      stitched_frames |-> << >>,
      summary |-> << >>,                \* the counts printed at lines 405-412
      report |-> FALSE,                 \* generate_enhanced_report was called
      exit_code |-> 0 - 1,              \* -1: main has not returned
      exit_at |-> "running" ]

\* "return code" of main at the named place, or sys.exit(1) of the handler.
Exit(r, code, at) ==
    [ r EXCEPT !.stage = "exit", !.exit_code = code, !.exit_at = at ]

\* Lines 217-223: load_config raises ValueError, caught at line 453.
LoadConfigStep(r) ==
    IF config_ok
    THEN [ r EXCEPT !.stage = "validate_input" ]
    ELSE Exit(r, 1, "invalid_config")

\* Line 230: validate_input_directory raises InputDirectoryError.
ValidateInputStep(r) ==
    IF input_dir_ok
    THEN [ r EXCEPT !.stage = "discover" ]
    ELSE Exit(r, 1, "input_directory")

\* Lines 233-246.
DiscoverStep(r) ==
    IF cam0_segments = << >> \/ cam1_segments = << >>
    THEN Exit(r, 1, "no_segments")
    ELSE [ r EXCEPT !.stage = "frame_count" ]

FrameCountStep_FailsOnExcess(r) ==
    IF ExceedsThreshold(TotalFrames(cam0_segments), TotalFrames(cam1_segments),
                        frame_count_threshold)
    THEN Exit(r, 1, "frame_count")
    ELSE [ r EXCEPT !.stage = "analysis" ]

\* Lines 250-266.
FrameCountStep(r) ==
    IF /\ ExceedsThreshold(TotalFrames(cam0_segments), TotalFrames(cam1_segments),
                           frame_count_threshold)
       /\ ~user_continues
    THEN Exit(r, 0, "user_abort")
    ELSE [ r EXCEPT !.stage = "analysis" ]

\* analyze_all_segments raises ValueError for an empty combined series
\* (timestamp_analysis.py 346-347) and, through calculate_timestamp_stats,
\* for one of fewer than 2 records (lines 92-93).
AnalysisRaises(ts) == TooShort(ts.cam0) \/ TooShort(ts.cam1)

\* Lines 270-289.
AnalysisStep_Propagates(r) ==
    IF ~r.ts.enabled
    THEN [ r EXCEPT !.stage = "setup_dirs" ]
    ELSE IF AnalysisRaises(r.ts)
         THEN Exit(r, 1, "analysis")
         ELSE [ r EXCEPT !.stage = "setup_dirs",
                         !.sync_analysis =
                             << SyncQuality(r.ts.cam0, r.ts.cam1, ConfigSamplePoints) >> ]

AnalysisStep_PoorAborts(r) ==
    IF ~r.ts.enabled
    THEN [ r EXCEPT !.stage = "setup_dirs" ]
    ELSE IF AnalysisRaises(r.ts)
         THEN [ r EXCEPT !.stage = "setup_dirs",
                         !.sync_analysis = << >>,
                         !.analysis_failed = TRUE ]
         ELSE LET a == SyncQuality(r.ts.cam0, r.ts.cam1, ConfigSamplePoints)
              IN  IF a.overall_rating = "poor"
                  THEN Exit([ r EXCEPT !.sync_analysis = << a >> ], 1, "analysis")
                  ELSE [ r EXCEPT !.stage = "setup_dirs", !.sync_analysis = << a >> ]

AnalysisStep(r) ==
    IF ~r.ts.enabled
    THEN [ r EXCEPT !.stage = "setup_dirs" ]
    ELSE IF AnalysisRaises(r.ts)
         THEN [ r EXCEPT !.stage = "setup_dirs",
                         !.sync_analysis = << >>,
                         !.analysis_failed = TRUE ]
         ELSE [ r EXCEPT !.stage = "setup_dirs",
                         !.sync_analysis =
                             << SyncQuality(r.ts.cam0, r.ts.cam1, ConfigSamplePoints) >> ]

\* Lines 291-293: setup_extraction_directories and setup_stitching_directory
\* raise OutputDirectoryError, caught at line 453.
SetupDirsStep(r) ==
    IF output_dir_ok
    THEN [ r EXCEPT !.stage = "submit" ]
    ELSE Exit(r, 1, "output_directory")

\* Line 331 into extract_all_frames, up to the submissions of
\* multiprocess_extraction.py 188-191.  Nothing there reads the flag.
SubmitStep(r) ==
    [ r EXCEPT !.stage = "collect", !.tasks = MainTasks ]

\* The lists of all tasks of one camera, as the workers return them.
RECURSIVE MainResults(_, _, _)
MainResults(submitted, camera_id, i) ==
    IF i > Len(submitted)
    THEN << >>
    ELSE (IF submitted[i].camera_id = camera_id
          THEN ExtractSegmentFrames(submitted[i], outcome[i])
          ELSE << >>)
         \o MainResults(submitted, camera_id, i + 1)

\* The rest of extract_all_frames (multiprocess_extraction.py 194-234):
\* every future is collected and the two lists are sorted; then the check
\* of lines 338-341.
CollectStep_IgnoresStop(r) ==
    LET got == [ r EXCEPT !.cam0_frames = SortFrames(MainResults(r.tasks, "cam0", 1)),
                          !.cam1_frames = SortFrames(MainResults(r.tasks, "cam1", 1)) ]
    IN  [ got EXCEPT !.stage = "stitch" ]

CollectStep(r) ==
    LET got == [ r EXCEPT !.cam0_frames = SortFrames(MainResults(r.tasks, "cam0", 1)),
                          !.cam1_frames = SortFrames(MainResults(r.tasks, "cam1", 1)) ]
    IN  IF r.shutdown_requested
        THEN Exit(got, 1, "interrupted")
        ELSE [ got EXCEPT !.stage = "stitch" ]

\* Lines 345-412: find_frame_pairs, stitch_frames and the printed summary.
StitchStep(r) ==
    LET cam0_map == FrameMap(r.cam0_frames)
        cam1_map == FrameMap(r.cam1_frames)
        found == MakePairs(cam0_map, cam1_map, CommonFrameNumbers(cam0_map, cam1_map))
        done == StitchLoop(found, stitch_fails, 1,
                           [attempted |-> << >>, stitched_frames |-> << >>])
    IN  [ r EXCEPT !.stage = "report",
                   !.frame_pairs = found,
                   !.stitched_frames = done.stitched_frames,
                   !.summary = << [ cam0_extracted |-> Len(r.cam0_frames),
                                    cam1_extracted |-> Len(r.cam1_frames),
                                    frames_stitched |-> Len(done.stitched_frames) ] >> ]

\* Lines 414-451: the report (its exceptions are caught at line 440) and
\* "return 0".
ReportStep(r) ==
    Exit([ r EXCEPT !.report = TRUE ], 0, "done")

\* signal_handler (lines 49-58) in a run that has not returned.
SignalHandlerStep(r) ==
    IF r.stage = "exit"
    THEN r
    ELSE IF ~r.shutdown_requested
         THEN [ r EXCEPT !.shutdown_requested = TRUE, !.stop_at = r.stage ]
         ELSE Exit(r, 1, "forced")

\* An input is drawn where main reads it: a run that stops at an earlier
\* step never looks at the later ones.
InitMain ==
    /\ sampling_interval = 1
    /\ config_ok \in BOOLEAN
    /\ input_dir_ok \in (IF config_ok THEN BOOLEAN ELSE { TRUE })
    /\ \E discovered \in BOOLEAN :
          /\ discovered => config_ok /\ input_dir_ok
          /\ cam0_segments \in (IF discovered THEN Discovered("cam0") ELSE { << >> })
          /\ cam1_segments \in (IF discovered THEN Discovered("cam1") ELSE { << >> })
    /\ \E both \in { cam0_segments # << >> /\ cam1_segments # << >> } :
          /\ frame_count_threshold \in (IF both THEN { 5, 50 } ELSE { 5 })
          /\ user_continues \in
                (IF both /\ ExceedsThreshold(TotalFrames(cam0_segments),
                                             TotalFrames(cam1_segments),
                                             frame_count_threshold)
                 THEN BOOLEAN ELSE { TRUE })
          /\ \E extracting \in { both /\ user_continues } :
                /\ runs \in { [ k \in RunIds |-> NewRun(IF k = 1 THEN ts ELSE TsDisabled) ] :
                                ts \in (IF extracting
                                        THEN TsInputs \cup { TsDisabled }
                                        ELSE { TsDisabled }) }
                /\ output_dir_ok \in (IF extracting THEN BOOLEAN ELSE { TRUE })
                /\ outcome \in
                      (IF extracting /\ output_dir_ok
                       THEN { o \in [ DOMAIN MainTasks -> Outcomes ] :
                                \A i \in DOMAIN MainTasks :
                                    o[i] \in MainOutcomes(MainTasks[i].segment) }
                       ELSE { << >> })
                /\ stitch_fails \in
                      (IF extracting /\ output_dir_ok
                       THEN SUBSET (1..MaxFrames) ELSE { {} })
    /\ max_workers = Len(cam0_segments) + Len(cam1_segments)
    /\ tasks = << >>
    /\ status = << >>
    /\ future_result = << >>
    /\ slow = {}
    /\ cam0_results = << >>
    /\ cam1_results = << >>
    /\ completion = << >>
    /\ pc = "idle"
    /\ returned = << >>
    /\ stitch_pc = "idle"
    /\ attempted = << >>
    /\ stitched_frames = << >>
    /\ IdleSample
    /\ IdlePair
    /\ IdleSync
    /\ IdleRating
    /\ IdleLast

\* Every run that stands at the stage takes the step; stepped[k] is run k
\* after the step.
Advance(stage, stepped) ==
    /\ \E k \in RunIds : runs[k].stage = stage
    /\ runs' = [ k \in RunIds |->
                   IF runs[k].stage = stage THEN stepped[k] ELSE runs[k] ]
    /\ UNCHANGED << sampling_interval, config_ok, input_dir_ok, frame_count_threshold,
                    user_continues >>
    /\ UNCHANGED << sampleVars, extractVars, pairVars, stitchVars, syncVars, ratingVars,
                    lastVars >>

MainLoadConfig ==
    Advance("load_config", [ k \in RunIds |-> LoadConfigStep(runs[k]) ])

MainValidateInput ==
    Advance("validate_input", [ k \in RunIds |-> ValidateInputStep(runs[k]) ])

MainDiscover ==
    Advance("discover", [ k \in RunIds |-> DiscoverStep(runs[k]) ])

MainFrameCount ==
    Advance("frame_count", [ k \in RunIds |-> FrameCountStep(runs[k]) ])

MainAnalysis ==
    Advance("analysis", [ k \in RunIds |-> AnalysisStep(runs[k]) ])

MainSetupDirs ==
    Advance("setup_dirs", [ k \in RunIds |-> SetupDirsStep(runs[k]) ])

MainSubmit ==
    Advance("submit", [ k \in RunIds |-> SubmitStep(runs[k]) ])

MainCollect ==
    Advance("collect", [ k \in RunIds |-> CollectStep(runs[k]) ])

MainStitch ==
    Advance("stitch", [ k \in RunIds |-> StitchStep(runs[k]) ])

MainReport ==
    Advance("report", [ k \in RunIds |-> ReportStep(runs[k]) ])

\* An interrupt (SIGINT or SIGTERM): the same interrupts reach both runs at
\* the same place.
SignalHandler ==
    /\ \E k \in RunIds : runs[k].stage # "exit"
    /\ runs' = [ k \in RunIds |-> SignalHandlerStep(runs[k]) ]
    /\ UNCHANGED << sampling_interval, config_ok, input_dir_ok, frame_count_threshold,
                    user_continues >>
    /\ UNCHANGED << sampleVars, extractVars, pairVars, stitchVars, syncVars, ratingVars,
                    lastVars >>

NextMain ==
    \/ MainLoadConfig
    \/ MainValidateInput
    \/ MainDiscover
    \/ MainFrameCount
    \/ MainAnalysis
    \/ MainSetupDirs
    \/ MainSubmit
    \/ MainCollect
    \/ MainStitch
    \/ MainReport
    \/ SignalHandler

SpecMain == InitMain /\ [][NextMain]_vars

\* The stages at which main has not yet got its frames back from
\* extract_all_frames: a flag set there is seen by the check of line 339.
UpToCollect ==
    { "load_config", "validate_input", "discover", "frame_count", "analysis",
      "setup_dirs", "submit", "collect" }

\* The stages before the submissions of extract_all_frames.
BeforeSubmit == UpToCollect \ { "collect" }

\* C11 as stated: every task submission happens before the stop flag is
\* set, so no run holds submitted tasks with a flag that was set while main
\* had not yet reached the submissions.
C11_NoSubmitAfterStop ==
    \A k \in DOMAIN runs :
        runs[k].tasks # << >> => runs[k].stop_at \notin BeforeSubmit

\* C12 as stated: when the stop is requested while extraction is running
\* and main then returns (not by a forced exit), the frames collected have
\* been paired and summarised and the report was written.
C12_PartialResultsReported ==
    \A k \in DOMAIN runs :
        (/\ runs[k].stage = "exit"
         /\ runs[k].exit_at # "forced"
         /\ runs[k].stop_at = "collect"
         /\ runs[k].cam0_frames \o runs[k].cam1_frames # << >>)
            => (runs[k].summary # << >> /\ runs[k].report)

\* Class (a) of the error taxonomy: invalid configuration, missing or
\* inaccessible input directory, no segment discovered for a camera.
InputError ==
    \/ ~config_ok
    \/ ~input_dir_ok
    \/ cam0_segments = << >>
    \/ cam1_segments = << >>

\* The operator answered "no" at the frame-count prompt.
UserAbort ==
    /\ ~InputError
    /\ ExceedsThreshold(TotalFrames(cam0_segments), TotalFrames(cam1_segments),
                        frame_count_threshold)
    /\ ~user_continues

Outputs(r) ==
    [ stage |-> r.stage,
      tasks |-> r.tasks,
      cam0_frames |-> r.cam0_frames,
      cam1_frames |-> r.cam1_frames,
      frame_pairs |-> r.frame_pairs,
      stitched_frames |-> r.stitched_frames,
      summary |-> r.summary,
      exit_code |-> r.exit_code ]

\* The run has left lines 270-289 behind.
PastAnalysis(r) ==
    \/ r.stage \in { "setup_dirs", "submit", "collect", "stitch", "report" }
    \/ r.exit_at \in { "output_directory", "interrupted", "done" }

\* C16: a run whose analysis is enabled and meets a series of fewer than 2
\* records gets past the analysis with the result None and the failure
\* logged, and from there on does what the run with analysis disabled does.
C16_ShortSeriesUnavailable ==
    runs # << >> =>
        LET r == runs[1]
        IN  (r.ts.enabled /\ (Len(r.ts.cam0) < 2 \/ Len(r.ts.cam1) < 2)) =>
                /\ r.sync_analysis = << >>
                /\ r.exit_at # "analysis"
                /\ PastAnalysis(r) => r.analysis_failed
                /\ Outputs(r) = Outputs(runs[2])

\* One record for camera 1: the run still stitches a frame and returns 0.
C16_Witness ==
    /\ runs[1].ts.enabled
    /\ Len(runs[1].ts.cam0) = 2
    /\ Len(runs[1].ts.cam1) = 1
    /\ runs[1].analysis_failed
    /\ runs[1].stage = "exit"
    /\ runs[1].exit_code = 0
    /\ runs[1].stitched_frames # << >>

\* C17: whatever the timestamp data of a run (analysis off, failing, or
\* giving any rating), it submits the tasks, extracts the frames, finds the
\* pairs, stitches the frames and returns the exit code of the run without
\* analysis on the same inputs; so any two runs that differ in timestamp
\* data only agree on all of these.
C17_AnalysisAdvisory ==
    \A j, k \in DOMAIN runs : Outputs(runs[j]) = Outputs(runs[k])

\* An analysis that rates the synchronisation poor, and the same stitched
\* result as without analysis.
C17_Witness ==
    /\ runs[1].sync_analysis # << >>
    /\ runs[1].sync_analysis[1].overall_rating = "poor"
    /\ runs[2].sync_analysis = << >>
    /\ runs[1].stage = "exit"
    /\ runs[2].stage = "exit"
    /\ runs[1].exit_code = 0
    /\ runs[1].stitched_frames # << >>
    /\ runs[1].stitched_frames = runs[2].stitched_frames

\* The frame counts of the two cameras differ by more than the threshold.
Exceeds ==
    ExceedsThreshold(TotalFrames(cam0_segments), TotalFrames(cam1_segments),
                     frame_count_threshold)

\* A run as it enters the timestamp analysis, but for the stop flag.
EntersAnalysis(r) ==
    [ r EXCEPT !.shutdown_requested = FALSE, !.stop_at = "never" ]
        = [ NewRun(r.ts) EXCEPT !.stage = "analysis" ]

MaxScenarioSegs == 3

\* The length of every segment, which is also the sampling interval.
ScenarioFrameCounts == { 2, 100 }

\* discover_videos on a directory that holds the files numbered `present`
\* of one camera: the list is sorted by segment number (video_discovery.py
\* 85-131); a file that is not there is not in the list.
DiscoveredFiles(camera_id, present, frame_count) ==
    LET numbers == Sorted(present)
    IN  [ i \in DOMAIN numbers |->
            [ camera_id |-> camera_id,
              segment_number |-> numbers[i],
              frame_count |-> frame_count ] ]

\* Every worker reads and saves its whole segment, but for at most one
\* whose file cannot be opened any more when the worker runs.
ScenarioOutcomes(built) ==
    { [ i \in DOMAIN built |->
          IF i = lost
          THEN [ kind |-> "open_fail", decoded |-> 0, bad_save |-> 0 ]
          ELSE [ kind |-> "ok", decoded |-> built[i].segment.frame_count, bad_save |-> 0 ] ] :
      lost \in 0..Len(built) }

InitScenario ==
    /\ sampling_interval \in ScenarioFrameCounts
    /\ config_ok = TRUE
    /\ input_dir_ok = TRUE
    /\ output_dir_ok = TRUE
    /\ \E present0, present1 \in SUBSET (1..MaxScenarioSegs) :
          /\ cam0_segments = DiscoveredFiles("cam0", present0, sampling_interval)
          /\ cam1_segments = DiscoveredFiles("cam1", present1, sampling_interval)
    /\ frame_count_threshold = 5
    /\ user_continues \in BOOLEAN
    /\ runs = [ k \in RunIds |-> NewRun(TsDisabled) ]
    /\ outcome \in ScenarioOutcomes(MainTasks)
    /\ stitch_fails = {}
    /\ max_workers = Len(cam0_segments) + Len(cam1_segments)
    /\ tasks = << >>
    /\ status = << >>
    /\ future_result = << >>
    /\ slow = {}
    /\ cam0_results = << >>
    /\ cam1_results = << >>
    /\ completion = << >>
    /\ pc = "idle"
    /\ returned = << >>
    /\ stitch_pc = "idle"
    /\ attempted = << >>
    /\ stitched_frames = << >>
    /\ IdleSample
    /\ IdlePair
    /\ IdleSync
    /\ IdleRating
    /\ IdleLast

SpecScenario == InitScenario /\ [][NextMain]_vars

SegmentNumbers(segments) == { segments[i].segment_number : i \in DOMAIN segments }

AllOpened == \A i \in DOMAIN outcome : outcome[i].kind = "ok"

PairNumbersOf(r) == { r.frame_pairs[k][1].global_frame_number : k \in DOMAIN r.frame_pairs }

\* A run that went through to the report.
Completed(r) == r.stage = "exit" /\ r.exit_at = "done"

\* A run on two non-empty cameras, accepted by the operator and not
\* interrupted, returns 0.
NoFatalError ==
    \A k \in DOMAIN runs :
        (/\ runs[k].stage = "exit"
         /\ runs[k].stop_at = "never"
         /\ cam0_segments # << >>
         /\ cam1_segments # << >>
         /\ user_continues) => (Completed(runs[k]) /\ runs[k].exit_code = 0)

\* C15, F being the segment length and the interval: with all
\* three segments of both cameras the extracted numbers and the pairs are
\* {1, F+1, 2F+1}; with the segment-2 file of camera 1 missing, camera 1's
\* extracted numbers are {1, 2F+1} and the pairs are that set, and the run
\* ends without a fatal error.
C15_MissingKeepsNumbers ==
    /\ NoFatalError
    /\ \A k \in DOMAIN runs :
          LET r == runs[k]
              F == sampling_interval
          IN  (Completed(r) /\ AllOpened /\ SegmentNumbers(cam0_segments) = { 1, 2, 3 }) =>
                  /\ Numbers(r.cam0_frames) = { 1, F + 1, 2 * F + 1 }
                  /\ SegmentNumbers(cam1_segments) = { 1, 2, 3 } =>
                        /\ Numbers(r.cam1_frames) = { 1, F + 1, 2 * F + 1 }
                        /\ PairNumbersOf(r) = { 1, F + 1, 2 * F + 1 }
                  /\ SegmentNumbers(cam1_segments) = { 1, 3 } =>
                        /\ Numbers(r.cam1_frames) = { 1, 2 * F + 1 }
                        /\ PairNumbersOf(r) = { 1, 2 * F + 1 }

\* ===================================================================
\* _calculate_rating with its recommendations
\* (timestamp_analysis.py 228-281), called as analyze_sync_quality calls it
\* ===================================================================
MaxDrifts == 3
MaxPairDrifts == 1

IdleEarlier ==
    /\ IdleSample
    /\ IdleExtract
    /\ IdlePair
    /\ IdleStitch
    /\ IdleSync
    /\ IdleRating
    /\ IdleMain

\* Absolute drifts of sampled positions, in microseconds: the bounds of the
\* bands and of the maximum check, and the value just above 100 ms.
DriftValues ==
    { 0, 10 * UsPerMs, 30 * UsPerMs, 50 * UsPerMs, 100 * UsPerMs, 100 * UsPerMs + 1 }

\* Start delays of either sign at and just below the bounds of line 244.
StartDelays ==
    { 0, 10 * UsPerMs - 1, 10 * UsPerMs, 50 * UsPerMs - 1, 50 * UsPerMs, 0 - 50 * UsPerMs }

NonEmptySeqs(S, n) == UNION { [1..k -> S] : k \in 1..n }

RECURSIVE SeqMax(_)
SeqMax(s) ==
    IF Len(s) = 1 THEN s[1]
    ELSE LET m == SeqMax(Tail(s)) IN IF Head(s) >= m THEN Head(s) ELSE m

\* The arguments analyze_sync_quality hands over (lines 205-212), from the
\* absolute drifts analyze_time_drift measured (lines 166-175): the mean as
\* sum and count, the maximum, the distribution and len(sample_drifts).
RatingCall(start_delay_us, drifts) ==
    [ start_delay_us |-> start_delay_us,
      drift_sum |-> SeqSum(drifts),
      max_drift_us |-> SeqMax(drifts),
      distribution |-> Distribution(drifts),
      total_samples |-> Len(drifts) ]

\* Lines 247-257: the recommendation of the average-drift band.
DriftRecommendation(args) ==
    IF MeanBelow(args.drift_sum, args.total_samples, 10) THEN << >>
    ELSE IF MeanBelow(args.drift_sum, args.total_samples, 30) THEN << "avg_10_30" >>
    ELSE IF MeanBelow(args.drift_sum, args.total_samples, 50) THEN << "avg_30_50" >>
    ELSE << "avg_over_50" >>

\* Lines 260-261.
MaxRecommendation(args) ==
    IF args.max_drift_us > 100 * UsPerMs THEN << "max_drift" >> ELSE << >>

\* Lines 264-266: good_ratio = distribution['<10ms'] / total_samples, or 0
\* for no sample; good_ratio < 0.5.
RatioRecommendation(args) ==
    IF args.total_samples > 0
    THEN IF 2 * args.distribution["<10ms"] < args.total_samples
         THEN << "good_ratio" >> ELSE << >>
    ELSE << "good_ratio" >>

Recommendations_NoAffirmative(args) ==
    DriftRecommendation(args) \o MaxRecommendation(args) \o RatioRecommendation(args)

\* Lines 241-266 and 278-279.
Recommendations(args) ==
    LET recommendations ==
            DriftRecommendation(args) \o MaxRecommendation(args)
                \o RatioRecommendation(args)
    IN  IF recommendations = << >> THEN << "affirmative" >> ELSE recommendations

\* The returned tuple (line 281).
CalculateRatingTuple(args) ==
    [ overall |-> CalculateRating(args.start_delay_us, args.drift_sum, args.total_samples),
      recommendations |-> Recommendations(args) ]

\* One call, on up to MaxDrifts sampled drifts.
InitRecommend ==
    /\ sampling_interval = 1
    /\ \E s \in StartDelays, drifts \in NonEmptySeqs(DriftValues, MaxDrifts) :
          rating_calls = << RatingCall(s, drifts) >>
    /\ rating_results = [ i \in DOMAIN rating_calls |-> << >> ]
    /\ IdleEarlier
    /\ IdleConfig
    /\ IdleLoad
    /\ IdleSeq
    /\ IdleStream

\* Two calls, each on up to MaxPairDrifts sampled drifts.
InitMonotone ==
    /\ sampling_interval = 1
    /\ \E s1, s2 \in StartDelays, d1, d2 \in NonEmptySeqs(DriftValues, MaxPairDrifts) :
          rating_calls = << RatingCall(s1, d1), RatingCall(s2, d2) >>
    /\ rating_results = [ i \in DOMAIN rating_calls |-> << >> ]
    /\ IdleEarlier
    /\ IdleConfig
    /\ IdleLoad
    /\ IdleSeq
    /\ IdleStream

\* A call of _calculate_rating returns.
CalculateRatingReturns ==
    /\ \E i \in DOMAIN rating_calls :
          /\ rating_results[i] = << >>
          /\ rating_results' =
                [ rating_results EXCEPT ![i] = << CalculateRatingTuple(rating_calls[i]) >> ]
    /\ UNCHANGED rating_calls
    /\ UNCHANGED besideCalls

NextCalls == CalculateRatingReturns

SpecRecommend == InitRecommend /\ [][NextCalls]_vars

SpecMonotone == InitMonotone /\ [][NextCalls]_vars

\* The checks the recommendations come from, by their conditions.
AvgCheck(args) == args.drift_sum >= 10 * UsPerMs * args.total_samples
MaxCheck(args) == args.max_drift_us > 100 * UsPerMs
RatioCheck(args) == 2 * args.distribution["<10ms"] < args.total_samples

Triggered(args) ==
    (IF AvgCheck(args) THEN { "avg" } ELSE {})
        \cup (IF MaxCheck(args) THEN { "max" } ELSE {})
        \cup (IF RatioCheck(args) THEN { "ratio" } ELSE {})

AvgTags == { "avg_10_30", "avg_30_50", "avg_over_50" }

\* C21: the returned recommendation list is never empty; each triggered
\* check (average drift >= 10 ms, maximum drift > 100 ms, fewer than half of
\* the samples below 10 ms) contributes exactly one entry and a check that
\* is not triggered none; the affirmative entry is there if and only if no
\* check is triggered, and then it is the only entry.
C21_Recommendations ==
    \A i \in DOMAIN rating_results :
        rating_results[i] # << >> =>
            LET args == rating_calls[i]
                recs == rating_results[i][1].recommendations
                n(tags) == Cardinality({ k \in DOMAIN recs : recs[k] \in tags })
            IN  /\ recs # << >>
                /\ n(AvgTags) = (IF AvgCheck(args) THEN 1 ELSE 0)
                /\ n({ "max_drift" }) = (IF MaxCheck(args) THEN 1 ELSE 0)
                /\ n({ "good_ratio" }) = (IF RatioCheck(args) THEN 1 ELSE 0)
                /\ n({ "affirmative" }) = (IF Triggered(args) = {} THEN 1 ELSE 0)
                /\ Len(recs) = (IF Triggered(args) = {} THEN 1
                                ELSE Cardinality(Triggered(args)))

\* A call whose three checks all trigger has returned three entries, and a
\* call with no triggered check would return the affirmative one alone.
C21_Witness ==
    /\ Len(rating_calls) = 1
    /\ rating_results[1] # << >>
    /\ Triggered(rating_calls[1]) = { "avg", "max", "ratio" }
    /\ Len(rating_results[1][1].recommendations) = 3

\* Ratings from worst to best.
Rank(rating) ==
    CASE rating = "poor" -> 0
      [] rating = "fair" -> 1
      [] rating = "good" -> 2
      [] rating = "excellent" -> 3

BothReturned == \A i \in DOMAIN rating_results : rating_results[i] # << >>

\* avg(a) <= avg(b), the averages being drift_sum / total_samples.
AvgLeq(a, b) == a.drift_sum * b.total_samples <= b.drift_sum * a.total_samples

SameAvg(a, b) == AvgLeq(a, b) /\ AvgLeq(b, a)

SameStart(a, b) == Abs(a.start_delay_us) = Abs(b.start_delay_us)

\* C30 as stated: of two calls with the same start delay, the one with the
\* larger average drift never has the better rating; of two calls with the
\* same average drift, the one with the larger absolute start delay never
\* has the better rating.
C30_MonotoneInBoth ==
    (Len(rating_calls) = 2 /\ BothReturned) =>
        \A i, j \in DOMAIN rating_calls :
            LET a == rating_calls[i]
                b == rating_calls[j]
                ra == Rank(rating_results[i][1].overall)
                rb == Rank(rating_results[j][1].overall)
            IN  /\ (SameStart(a, b) /\ AvgLeq(a, b)) => rb <= ra
                /\ (SameAvg(a, b) /\ Abs(a.start_delay_us) <= Abs(b.start_delay_us))
                      => rb <= ra

\* C30, amended: the rating is monotone in the absolute start delay for
\* every average drift, and monotone in the average drift as long as the
\* absolute start delay is below 50 ms.  With an absolute start delay of
\* 50 ms or more the rating is poor for an average drift below 30 ms, fair
\* for one in [30, 50) ms and poor again from 50 ms on.
C30_MonotoneInStartDelay ==
    (Len(rating_calls) = 2 /\ BothReturned) =>
        \A i, j \in DOMAIN rating_calls :
            LET a == rating_calls[i]
                b == rating_calls[j]
                ra == Rank(rating_results[i][1].overall)
                rb == Rank(rating_results[j][1].overall)
                avg_lt(x, bound) == x.drift_sum < bound * UsPerMs * x.total_samples
            IN  /\ (SameAvg(a, b) /\ Abs(a.start_delay_us) <= Abs(b.start_delay_us))
                      => rb <= ra
                /\ (/\ SameStart(a, b)
                    /\ AvgLeq(a, b)
                    /\ Abs(a.start_delay_us) < 50 * UsPerMs) => rb <= ra
                /\ Abs(a.start_delay_us) >= 50 * UsPerMs =>
                      ra = (IF ~avg_lt(a, 30) /\ avg_lt(a, 50) THEN 1 ELSE 0)

\* Two calls with a start delay of 50 ms: the one of average drift 0 is
\* rated poor, the one of average drift 30 ms fair.
C30_Witness ==
    /\ Len(rating_calls) = 2
    /\ BothReturned
    /\ SameStart(rating_calls[1], rating_calls[2])
    /\ Abs(rating_calls[1].start_delay_us) = 50 * UsPerMs
    /\ rating_calls[1].drift_sum = 0
    /\ rating_calls[2].drift_sum = 30 * UsPerMs * rating_calls[2].total_samples
    /\ rating_results[1][1].overall = "poor"
    /\ rating_results[2][1].overall = "fair"

\* ===================================================================
\* ConfigManager.load_config and Config.__post_init__ (config.py 41-81,
\* 153-186)
\* ===================================================================
\* The values a configuration file may give to the validated keys and to
\* the two keys of the timestamp analysis; the other keys are paths,
\* patterns and switches.
ConfigDicts ==
    [ sampling_interval : { 0, 1 },
      output_format : { "png", "JPEG", "bmp" },
      frame_count_threshold : { 0 - 1, 5, 101 },
      overlay_position : { "top-left", "center" },
      overlay_font_size : { 0, 32 },
      timestamp_sync_threshold_ms : { 0 - 1, 50 },
      timestamp_sample_points : { 0 - 1, 0, 20 } ]

\* Lines 63-66: lower case, and 'jpeg' becomes 'jpg'.
NormalFormat(output_format) ==
    CASE output_format \in { "png", "PNG" } -> "png"
      [] output_format \in { "jpg", "JPG", "jpeg", "JPEG" } -> "jpg"
      [] OTHER -> output_format

\* The conditions under which __post_init__ raises ValueError (lines 55-81).
PostInitRaises(d) ==
    \/ d.sampling_interval < 1
    \/ NormalFormat(d.output_format) \notin { "png", "jpg" }
    \/ d.frame_count_threshold < 0
    \/ d.frame_count_threshold > 100
    \/ d.overlay_position \notin { "top-left", "top-right", "bottom-left", "bottom-right" }
    \/ d.overlay_font_size < 1

InitConfig ==
    /\ sampling_interval = 1
    /\ config_dict \in ConfigDicts
    /\ config_result = << >>
    /\ IdleEarlier
    /\ IdleCalls
    /\ IdleLoad
    /\ IdleSeq
    /\ IdleStream

\* load_config: Config(**config_dict), a ValueError of __post_init__ being
\* raised again as ValueError (lines 182-186).
LoadConfig ==
    /\ config_result = << >>
    /\ config_result' =
          IF PostInitRaises(config_dict)
          THEN << [ kind |-> "ValueError" ] >>
          ELSE << [ kind |-> "Config",
                    config |-> [ config_dict EXCEPT
                                   !.output_format = NormalFormat(@) ] ] >>
    /\ UNCHANGED config_dict
    /\ UNCHANGED besideConfig

NextConfig == LoadConfig

SpecConfig == InitConfig /\ [][NextConfig]_vars

\* C22: a configuration with sampling_interval < 1, an unknown output
\* format, a sample point count < 1 or a negative sync threshold is never
\* loaded: load_config ends with a ValueError on it.
C22_InvalidValuesRejected ==
    (config_result # << >> /\ config_result[1].kind = "Config") =>
        /\ config_dict.sampling_interval >= 1
        /\ NormalFormat(config_dict.output_format) \in { "png", "jpg" }
        /\ config_dict.timestamp_sample_points >= 1
        /\ config_dict.timestamp_sync_threshold_ms >= 0

\* ===================================================================
\* TimestampAnalyzer.analyze_all_segments: the parallel load and the merge
\* (timestamp_analysis.py 283-351)
\* ===================================================================
MaxLoadSegs == 2
MaxLogLen == 2

\* A segment handed to analyze_all_segments with its timestamp log: the log
\* holds log_len records; a missing or unreadable log is a log of length 0
\* (load_segment_timestamps returns [], lines 304-309, and load_timestamps
\* returns [] on an error, lines 78-80).
LoadSegments ==
    [ segment_number : 1..MaxLoadSegs, log_len : 0..MaxLogLen ]

\* The records load_timestamps reads from the log of the file at position
\* `file` of camera_id's segment list.
LogRecords(camera_id, file, segment) ==
    [ i \in 1..segment.log_len |->
        [ camera_id |-> camera_id,
          segment_number |-> segment.segment_number,
          file |-> file,
          i |-> i ] ]

\* What the load task of a segment returns (lines 305-309).
LoadSegmentTimestamps(camera_id, file, segment) ==
    [ camera_id |-> camera_id,
      segment_num |-> segment.segment_number,
      timestamps |-> LogRecords(camera_id, file, segment) ]

\* Lines 319-325: the futures, camera 0's first.
SubmitLoads(segs0, segs1) ==
    [ i \in DOMAIN segs0 |-> LoadSegmentTimestamps("cam0", i, segs0[i]) ]
        \o [ i \in DOMAIN segs1 |-> LoadSegmentTimestamps("cam1", i, segs1[i]) ]

InitLoad ==
    /\ sampling_interval = 1
    /\ \E n0, n1 \in 0..MaxLoadSegs :
          \E segs0 \in [ 1..n0 -> LoadSegments ], segs1 \in [ 1..n1 -> LoadSegments ] :
              load_futures = SubmitLoads(segs0, segs1)
    /\ load_pending = DOMAIN load_futures
    /\ ts_results = [ cam0 |-> << >>, cam1 |-> << >> ]
    /\ load_pc = "loading"
    /\ combined = << >>
    /\ IdleEarlier
    /\ IdleCalls
    /\ IdleConfig
    /\ IdleSeq
    /\ IdleStream

\* results[segment_num] = timestamps on a dictionary kept as a function.
DictSet(dict, key, value) ==
    [ k \in DOMAIN dict \cup { key } |-> IF k = key THEN value ELSE dict[k] ]

\* as_completed yields one more future (lines 331-336).
LoadCompleted ==
    /\ load_pc = "loading"
    /\ \E f \in load_pending :
          LET done == load_futures[f]
          IN  /\ load_pending' = load_pending \ { f }
              /\ ts_results' =
                    IF done.camera_id = "cam0"
                    THEN [ ts_results EXCEPT
                             !.cam0 = DictSet(@, done.segment_num, done.timestamps) ]
                    ELSE [ ts_results EXCEPT
                             !.cam1 = DictSet(@, done.segment_num, done.timestamps) ]
    /\ UNCHANGED << load_futures, load_pc, combined >>
    /\ UNCHANGED besideLoad

\* for seg_num in sorted(results.keys()): extend (lines 339-343).
RECURSIVE ExtendSorted(_, _)
ExtendSorted(dict, keys) ==
    IF keys = {}
    THEN << >>
    ELSE LET seg_num == Min(keys)
         IN  dict[seg_num] \o ExtendSorted(dict, keys \ { seg_num })

\* Lines 338-351: the merge, once every future was yielded; an empty
\* series of either camera raises ValueError.
Combine ==
    /\ load_pc = "loading"
    /\ load_pending = {}
    /\ LET all_cam0 == ExtendSorted(ts_results.cam0, DOMAIN ts_results.cam0)
           all_cam1 == ExtendSorted(ts_results.cam1, DOMAIN ts_results.cam1)
       IN  /\ combined' = << all_cam0, all_cam1 >>
           /\ load_pc' = IF all_cam0 = << >> \/ all_cam1 = << >>
                         THEN "raised" ELSE "analyzing"
    /\ UNCHANGED << load_futures, load_pending, ts_results >>
    /\ UNCHANGED besideLoad

NextLoad ==
    \/ LoadCompleted
    \/ Combine

SpecLoad == InitLoad /\ [][NextLoad]_vars

\* Every record of the logs of camera_id's segments.
AllRecords(camera_id) ==
    UNION { Range(load_futures[f].timestamps) :
              f \in { g \in DOMAIN load_futures : load_futures[g].camera_id = camera_id } }

\* The series holds each record of the camera's logs once and no other
\* record, in ascending order of segment number, the records of one log in
\* the order of the log.
InSegmentOrder(series, camera_id) ==
    /\ Range(series) = AllRecords(camera_id)
    /\ Len(series) = Cardinality(AllRecords(camera_id))
    /\ \A k \in 1..(Len(series) - 1) :
          \/ series[k].segment_number < series[k + 1].segment_number
          \/ /\ series[k].segment_number = series[k + 1].segment_number
             /\ \/ series[k].file # series[k + 1].file
                \/ series[k].i < series[k + 1].i

\* C25: after the merge each camera's combined series is the concatenation
\* of its segments' series in ascending segment_number order, whatever the
\* order of completion was; a segment without log adds nothing; no record
\* of one camera is in the other camera's series.
C25_MergedInSegmentOrder ==
    combined # << >> =>
        /\ InSegmentOrder(combined[1], "cam0")
        /\ InSegmentOrder(combined[2], "cam1")
        /\ \A k \in DOMAIN combined[1] : combined[1][k].camera_id = "cam0"
        /\ \A k \in DOMAIN combined[2] : combined[2][k].camera_id = "cam1"

\* ===================================================================
\* FrameExtractor.save_frame and FrameExtractor.extract_frames
\* (frame_extraction.py 175-326)
\* ===================================================================
MaxSeqSegs == 2

\* The decimal digits of n >= 0, most significant first.
RECURSIVE Digits(_)
Digits(n) == IF n < 10 THEN << n >> ELSE Append(Digits(n \div 10), n % 10)

\* The format specification 04d: zeros in front up to a width of 4.
RECURSIVE ZeroPad4(_)
ZeroPad4(digits) == IF Len(digits) >= 4 THEN digits ELSE ZeroPad4(<< 0 >> \o digits)

\* Line 206: f"frame_{global_frame_number:04d}.{self.output_format}".
FileName(global_frame_number, output_format) ==
    [ prefix |-> "frame_",
      digits |-> ZeroPad4(Digits(global_frame_number)),
      extension |-> output_format ]

\* save_frame, lines 202-217: file_path = output_dir / filename.  A path is
\* the list of its directories and the file name; camera_id is not used.
SaveFrame(global_frame_number, output_dir, camera_id, output_format) ==
    [ parent |-> output_dir,
      name |-> FileName(global_frame_number, output_format) ]

\* ExtractedFrame (lines 300-304).
ExtractedFrame(global_frame_number, camera_id, file_path) ==
    [ global_frame_number |-> global_frame_number,
      camera_id |-> camera_id,
      file_path |-> file_path ]

\* The while loop of lines 285-313 on one segment, from local_frame_number
\* on: every frame read counts in global_frame_number.
RECURSIVE SeqReadLoop(_, _, _, _, _)
SeqReadLoop(call, o, local_frame_number, global_frame_number, extracted_frames) ==
    IF local_frame_number >= o.decoded
    THEN [ global_frame_number |-> global_frame_number,
           extracted_frames |-> extracted_frames ]
    ELSE LET local == local_frame_number + 1
             g == global_frame_number + 1
         IN  IF ShouldExtractFrame(g, sampling_interval) /\ o.bad_save # local
             THEN SeqReadLoop(call, o, local, g,
                              Append(extracted_frames,
                                     ExtractedFrame(g, call.camera_id,
                                                    SaveFrame(g, call.output_dir,
                                                              call.camera_id, "png"))))
             ELSE SeqReadLoop(call, o, local, g, extracted_frames)

\* The for loop of lines 268-326, from segment idx on.  A file that does not
\* open adds its frame_count to the counter (line 281); an exception while
\* the segment is read adds frame_count on top of the frames read so far
\* (line 323) and keeps the frames already extracted.
RECURSIVE SegmentLoop(_, _, _, _)
SegmentLoop(call, idx, global_frame_number, extracted_frames) ==
    IF idx > Len(call.video_segments)
    THEN extracted_frames
    ELSE LET segment == call.video_segments[idx]
             o == call.outcomes[idx]
         IN  IF o.kind = "open_fail"
             THEN SegmentLoop(call, idx + 1, global_frame_number + segment.frame_count,
                              extracted_frames)
             ELSE LET read == SeqReadLoop(call, o, 0, global_frame_number, extracted_frames)
                  IN  IF o.kind = "raise"
                      THEN SegmentLoop(call, idx + 1,
                                       read.global_frame_number + segment.frame_count,
                                       read.extracted_frames)
                      ELSE SegmentLoop(call, idx + 1, read.global_frame_number,
                                       read.extracted_frames)

\* extract_frames (lines 234-326): ValueError for an empty segment list,
\* OutputDirectoryError for a directory that cannot be used.
ExtractFrames(call) ==
    IF call.video_segments = << >>
    THEN [ kind |-> "ValueError", frames |-> << >> ]
    ELSE IF ~call.output_dir_ok
         THEN [ kind |-> "OutputDirectoryError", frames |-> << >> ]
         ELSE [ kind |-> "returned", frames |-> SegmentLoop(call, 1, 0, << >>) ]

\* The list extract_all_frames returns for the camera of the call on the
\* same segments and outcomes: the workers' lists, sorted
\* (multiprocess_extraction.py 141-165, 194-221).
RECURSIVE WorkerLists(_, _, _)
WorkerLists(built, outcomes, idx) ==
    IF idx > Len(built)
    THEN << >>
    ELSE ExtractSegmentFrames(built[idx], outcomes[idx])
             \o WorkerLists(built, outcomes, idx + 1)

ExtractAllFramesOf(call) ==
    SortFrames(WorkerLists(BuildTasks(SortSegments(call.video_segments), call.camera_id,
                                      sampling_interval, 0),
                           call.outcomes, 1))

\* Segment lists sorted by segment number, as discover_videos returns them.
SortedSegmentLists(camera_id, n) ==
    { segs \in [ 1..n -> SegmentsOf(camera_id) ] :
          \A i \in 1..(n - 1) : segs[i].segment_number <= segs[i + 1].segment_number }

\* The calls of extract_frames for one camera on up to MaxSeqSegs segments,
\* with every outcome of every segment.
SeqCalls(camera_id, output_dir) ==
    UNION { [ camera_id : { camera_id },
              video_segments : SortedSegmentLists(camera_id, n),
              outcomes : [ 1..n -> Outcomes ],
              output_dir : { output_dir },
              output_dir_ok : { TRUE } ] : n \in 1..MaxSeqSegs }

\* The calls on at most one segment that decodes as announced or does not
\* open, into a directory that may be unusable.
PlainCalls(camera_id, output_dir) ==
    UNION { [ camera_id : { camera_id },
              video_segments : SortedSegmentLists(camera_id, n),
              outcomes : [ 1..n -> { o \in Outcomes : o.kind # "raise" /\ o.bad_save = 0 } ],
              output_dir : { output_dir },
              output_dir_ok : BOOLEAN ] : n \in 0..1 }

\* One camera is extracted.
InitSequential ==
    /\ sampling_interval \in 1..MaxInterval
    /\ \E camera_id \in Cameras :
          \E call \in SeqCalls(camera_id, << "extracted_frames", camera_id >>) :
              seq_calls = << call >>
    /\ seq_extracted = [ i \in DOMAIN seq_calls |-> << >> ]
    /\ par_extracted = [ i \in DOMAIN seq_calls |-> << >> ]
    /\ IdleEarlier
    /\ IdleCalls
    /\ IdleConfig
    /\ IdleLoad
    /\ IdleStream

\* Both cameras are extracted with the same output_dir.
InitCameras ==
    /\ sampling_interval = 1
    /\ \E call0 \in PlainCalls("cam0", << "output" >>),
          call1 \in PlainCalls("cam1", << "output" >>) :
              seq_calls = << call0, call1 >>
    /\ seq_extracted = [ i \in DOMAIN seq_calls |-> << >> ]
    /\ par_extracted = [ i \in DOMAIN seq_calls |-> << >> ]
    /\ IdleEarlier
    /\ IdleCalls
    /\ IdleConfig
    /\ IdleLoad
    /\ IdleStream

\* A call of extract_frames ends.
ExtractFramesEnds ==
    /\ \E i \in DOMAIN seq_calls :
          /\ seq_extracted[i] = << >>
          /\ seq_extracted' = [ seq_extracted EXCEPT ![i] = << ExtractFrames(seq_calls[i]) >> ]
    /\ UNCHANGED << seq_calls, par_extracted >>
    /\ UNCHANGED besideSeq

\* extract_all_frames returns the list of the camera.
ExtractAllFramesReturns ==
    /\ \E i \in DOMAIN seq_calls :
          /\ par_extracted[i] = << >>
          /\ par_extracted' = [ par_extracted EXCEPT ![i] = << ExtractAllFramesOf(seq_calls[i]) >> ]
    /\ UNCHANGED << seq_calls, seq_extracted >>
    /\ UNCHANGED besideSeq

NextSequential ==
    \/ ExtractFramesEnds
    \/ ExtractAllFramesReturns

SpecSequential == InitSequential /\ [][NextSequential]_vars

SpecCameras == InitCameras /\ [][NextSequential]_vars

\* The frames of call i, once extract_frames has returned them.
SeqFrames(i) ==
    IF seq_extracted[i] # << >> /\ seq_extracted[i][1].kind = "returned"
    THEN seq_extracted[i][1].frames
    ELSE << >>

\* C26: every frame extract_frames returns for camera c lies in
\* output_dir/c, and no frame of cam0 has the file path of a frame of cam1.
C26_CameraSubdirectory ==
    /\ \A i \in DOMAIN seq_calls :
          \A k \in DOMAIN SeqFrames(i) :
              SeqFrames(i)[k].file_path.parent
                  = Append(seq_calls[i].output_dir, seq_calls[i].camera_id)
    /\ \A i, j \in DOMAIN seq_calls :
          seq_calls[i].camera_id # seq_calls[j].camera_id =>
              \A k \in DOMAIN SeqFrames(i), l \in DOMAIN SeqFrames(j) :
                  SeqFrames(i)[k].file_path # SeqFrames(j)[l].file_path

\* C29: the sequential and the parallel extraction of the same sorted
\* segment list with the same interval yield the same set of global frame
\* numbers, for every outcome of every segment.
C29_SameNumbers ==
    \A i \in DOMAIN seq_calls :
        (/\ seq_extracted[i] # << >>
         /\ seq_extracted[i][1].kind = "returned"
         /\ par_extracted[i] # << >>)
            => Numbers(SeqFrames(i)) = Numbers(par_extracted[i][1])

\* ===================================================================
\* streaming_extraction_worker and streaming_stitcher_worker
\* (main.py 61-198): two extraction threads, one per camera, share
\* extracted_frames_dict under the lock and feed the queue of the stitcher
\* ===================================================================
MaxStreamSegs == 2

\* A video file delivers the announced number of frames, one less or one
\* more, or does not open (line 89); every save succeeds.
StreamOutcomes(segment) ==
    { [ kind |-> "ok", decoded |-> d, bad_save |-> 0 ] :
          d \in { segment.frame_count - 1, segment.frame_count, segment.frame_count + 1 }
                    \cap 0..MaxDecoded }
    \cup { [ kind |-> "open_fail", decoded |-> 0, bad_save |-> 0 ] }

\* Lines 86-127: the metadata of the frames the worker of camera_id saves,
\* in the order it saves them.  The count of a segment starts at the sum of
\* frame_count over the segments before it (line 93) and goes up with every
\* frame read (lines 96-103).
RECURSIVE StreamSaves(_, _, _, _)
StreamSaves(camera_id, segments, outcomes, idx) ==
    IF idx > Len(segments)
    THEN << >>
    ELSE LET before == SubSeq(segments, 1, idx - 1)
             task == [ segment |-> segments[idx],
                       camera_id |-> camera_id,
                       sampling_interval |-> sampling_interval,
                       global_frame_offset |->
                           SeqSum([ k \in DOMAIN before |-> before[k].frame_count ]) ]
         IN  (IF outcomes[idx].kind = "open_fail"
              THEN << >>
              ELSE ReadLoop(task, outcomes[idx], 0, << >>))
                 \o StreamSaves(camera_id, segments, outcomes, idx + 1)

Saves(c) == StreamSaves(c, stream_segments[c], stream_outcomes[c], 1)

OtherCamera(c) == IF c = "cam0" THEN "cam1" ELSE "cam0"

ProducersDone == \A c \in Cameras : stream_pos[c] = Len(Saves(c))

\* The segments of a camera in the order of their numbers, with the given
\* frame counts.
StreamSegments(camera_id, frame_counts) ==
    [ i \in DOMAIN frame_counts |->
        [ camera_id |-> camera_id, segment_number |-> i, frame_count |-> frame_counts[i] ] ]

InitStream ==
    /\ sampling_interval = 1
    /\ \E n0, n1 \in 0..MaxStreamSegs :
          \E count0 \in [ 1..n0 -> 1..MaxFrames ], count1 \in [ 1..n1 -> 1..MaxFrames ] :
              stream_segments =
                  [ cam0 |-> StreamSegments("cam0", count0),
                    cam1 |-> StreamSegments("cam1", count1) ]
    /\ \E o0 \in [ DOMAIN stream_segments.cam0 -> Outcomes ],
          o1 \in [ DOMAIN stream_segments.cam1 -> Outcomes ] :
          /\ \A i \in DOMAIN o0 : o0[i] \in StreamOutcomes(stream_segments.cam0[i])
          /\ \A i \in DOMAIN o1 : o1[i] \in StreamOutcomes(stream_segments.cam1[i])
          /\ stream_outcomes = [ cam0 |-> o0, cam1 |-> o1 ]
    /\ stream_pos = [ c \in Cameras |-> 0 ]
    /\ extracted_frames_dict = [ c \in Cameras |-> << >> ]
    /\ stitch_queue = << >>
    /\ queued = << >>
    /\ stop_event = FALSE
    /\ stop_early = FALSE
    /\ stream_fails \in { {}, { 1 } }
    /\ taken = << >>
    /\ stitched_count = 0
    /\ stitcher_pc = "running"
    /\ IdleEarlier
    /\ IdleCalls
    /\ IdleConfig
    /\ IdleLoad
    /\ IdleSeq

\* Lines 105-129: the worker of camera c saves its next frame and, holding
\* the lock, stores it and queues the pair if the other camera has the
\* number.
ExtractionWorkerSaves(c) ==
    /\ stream_pos[c] < Len(Saves(c))
    /\ LET frame_metadata == Saves(c)[stream_pos[c] + 1]
           global_frame_number == frame_metadata.global_frame_number
           dict == [ extracted_frames_dict EXCEPT
                       ![c] = DictSet(@, global_frame_number, frame_metadata) ]
           pair == [ cam0 |-> dict["cam0"][global_frame_number],
                     cam1 |-> dict["cam1"][global_frame_number],
                     frame_number |-> global_frame_number ]
       IN  /\ extracted_frames_dict' = dict
           /\ IF global_frame_number \in DOMAIN extracted_frames_dict[OtherCamera(c)]
              THEN /\ stitch_queue' = Append(stitch_queue, pair)
                   /\ queued' = Append(queued, pair)
              ELSE UNCHANGED << stitch_queue, queued >>
    /\ stream_pos' = [ stream_pos EXCEPT ![c] = @ + 1 ]
    /\ UNCHANGED << stream_segments, stream_outcomes, stop_event, stop_early, stream_fails,
                    taken, stitched_count, stitcher_pc >>
    /\ UNCHANGED besideStream

\* The thread that started the workers sets stop_event.
SetStopEvent ==
    /\ ~stop_event
    /\ stop_event' = TRUE
    /\ stop_early' = ~ProducersDone
    /\ UNCHANGED << stream_segments, stream_outcomes, stream_pos, extracted_frames_dict,
                    stitch_queue, queued, stream_fails, taken, stitched_count, stitcher_pc >>
    /\ UNCHANGED besideStream

StitchedCount_CountsFailures(count, frame_number) == count + 1

\* Lines 174-186: stitched_count goes up when stitch_single_pair returns.
StitchedCount(count, frame_number) ==
    IF frame_number \in stream_fails THEN count ELSE count + 1

\* Lines 172-189: the stitcher gets the oldest pair and tries to stitch it.
StitcherTakes ==
    /\ stitcher_pc = "running"
    /\ stitch_queue # << >>
    /\ taken' = Append(taken, Head(stitch_queue))
    /\ stitch_queue' = Tail(stitch_queue)
    /\ stitched_count' = StitchedCount(stitched_count, Head(stitch_queue).frame_number)
    /\ UNCHANGED << stream_segments, stream_outcomes, stream_pos, extracted_frames_dict,
                    queued, stop_event, stop_early, stream_fails, stitcher_pc >>
    /\ UNCHANGED besideStream

\* Line 169: the loop ends when stop_event is set and the queue is empty;
\* line 198.  A get that times out on an empty queue (lines 191-193) leads
\* back to the loop condition and changes nothing.
StitcherReturns ==
    /\ stitcher_pc = "running"
    /\ stop_event
    /\ stitch_queue = << >>
    /\ stitcher_pc' = "returned"
    /\ UNCHANGED << stream_segments, stream_outcomes, stream_pos, extracted_frames_dict,
                    stitch_queue, queued, stop_event, stop_early, stream_fails, taken,
                    stitched_count >>
    /\ UNCHANGED besideStream

NextStream ==
    \/ \E c \in Cameras : ExtractionWorkerSaves(c)
    \/ SetStopEvent
    \/ StitcherTakes
    \/ StitcherReturns

SpecStream == InitStream /\ [][NextStream]_vars

\* The stitcher is a thread of its own and is scheduled again and again.
FairSpecStream ==
    /\ SpecStream
    /\ WF_vars(StitcherTakes)
    /\ WF_vars(StitcherReturns)

QueuedCount(g) == Cardinality({ k \in DOMAIN queued : queued[k].frame_number = g })

SavedNumbers(c) == { Saves(c)[k].global_frame_number : k \in 1..stream_pos[c] }

\* C27: a pair of number g is never queued unless both cameras saved g and
\* never more than once; when both workers are through, the queued numbers
\* are the numbers both cameras saved, each queued once.
C27_QueuedOnce ==
    /\ \A k \in DOMAIN queued :
          /\ queued[k].frame_number \in SavedNumbers("cam0") \cap SavedNumbers("cam1")
          /\ QueuedCount(queued[k].frame_number) = 1
    /\ ProducersDone =>
          \A g \in SavedNumbers("cam0") \cap SavedNumbers("cam1") : QueuedCount(g) = 1

\* The number of pairs in a list whose stitch succeeds.
Successes(list) == Cardinality({ k \in DOMAIN list : list[k].frame_number \notin stream_fails })

\* What the stitcher has done agrees with the queue: it took the pairs in
\* the order they were put, each once, and counted the successes.
TookInOrder ==
    /\ Len(taken) <= Len(queued)
    /\ taken = SubSeq(queued, 1, Len(taken))
    /\ queued = taken \o stitch_queue
    /\ stitched_count = Successes(taken)

\* C28: the stitcher returns only in a step taken with stop_event set and
\* the queue empty; it has always tried the pairs in the order they were
\* put, each once, whether a stitch fails or not, and its count is the
\* number of successful stitches; when stop_event was set after both
\* extraction workers were through, the stitcher eventually returns, and
\* then it has taken every pair ever put.
C28_StitcherDrainsQueue ==
    /\ [](TookInOrder)
    /\ [](stitcher_pc = "returned" => stop_event)
    /\ []((stitcher_pc = "returned" /\ ~stop_early) =>
              (stitch_queue = << >> /\ taken = queued))
    /\ [][(stitcher_pc = "running" /\ stitcher_pc' = "returned") =>
              (stop_event /\ stitch_queue = << >>)]_vars
    /\ ((stop_event /\ ~stop_early) ~> (stitcher_pc = "returned"))

\* The stitcher has returned after a stop that came when both workers were
\* through; it took two pairs, the first of which failed to stitch, and
\* counted one.
C28_Witness ==
    /\ stitcher_pc = "returned"
    /\ ~stop_early
    /\ Len(taken) = 2
    /\ taken = queued
    /\ taken[1].frame_number \in stream_fails
    /\ taken[2].frame_number \notin stream_fails
    /\ stitched_count = 1

====
